---- MODULE Spec2Model ----
(***************************************************************************)
(* A model of the benchmark core of content-moderation-benchmark:         *)
(*   - MetricsCollector (src/src/benchmark/metrics.py): record() and      *)
(*     calculate();                                                        *)
(*   - BenchmarkRunner._run_benchmark (src/src/benchmark/runner.py): the  *)
(*     submitting/draining main thread, the ThreadPoolExecutor workers    *)
(*     running _moderate_single, _check_mismatch and the callbacks.       *)
(*                                                                         *)
(* Python strings are modelled as sequences of characters, so that        *)
(* str.lower(), the "in" substring test and string (in)equality are       *)
(* computed as Python computes them.  A CJK character is written as its   *)
(* pinyin syllable: "zheng","chang" is the label the source writes as the *)
(* two characters U+6B63 U+5E38 (the no-risk label).                      *)
(* Latencies are whole milliseconds.  Wall-clock readings (start_time,    *)
(* end_time) are kept only as "has been read" flags.                      *)
(***************************************************************************)
EXTENDS Integers, Sequences, FiniteSets, TLC

\* ------------------------------------------------------------------ bounds
\* Longest case list handed to _run_benchmark.
MaxCases == 2
\* Largest max_workers of a BenchmarkConfig.
MaxWorkers == 2
\* Longest sequence of record() calls on a stand-alone collector.
MaxRecords == 3
\* the largest number of outcomes in a planned batch
MaxBatch == 10
\* the number of outcomes in a long batch of successes
LongBatch == 100

\* the longest case list given to run() or held by a data file
MaxRunCases == 1
\* the largest number of providers added to a MultiProviderRunner
MaxProviders == 2

\* Config.RETRY_TIMES (its default)
RETRY_TIMES == 3

\* Python's None where a string is expected (Optional[str]): a one-element
\* sequence whose element is no character, so it differs from every string.
None == <<"<None>">>

\* ------------------------------------------------------------------ strings
UpperLetters ==
    <<"A", "B", "C", "D", "E", "F", "G", "H", "I", "J", "K", "L", "M",
      "N", "O", "P", "Q", "R", "S", "T", "U", "V", "W", "X", "Y", "Z">>
LowerLetters ==
    <<"a", "b", "c", "d", "e", "f", "g", "h", "i", "j", "k", "l", "m",
      "n", "o", "p", "q", "r", "s", "t", "u", "v", "w", "x", "y", "z">>

\* str.lower() on one character.
LowerChar(ch) ==
    IF \E k \in 1..26 : UpperLetters[k] = ch
    THEN LowerLetters[CHOOSE k \in 1..26 : UpperLetters[k] = ch]
    ELSE ch

\* str.lower()
Lower(s) == [k \in 1..Len(s) |-> LowerChar(s[k])]

\* Python's "sub in s" for strings.
Contains(sub, s) ==
    \E off \in 0..(Len(s) - Len(sub)) :
        \A k \in 1..Len(sub) : s[off + k] = sub[k]

\* The literal the source compares labels against (metrics.py:195, runner.py:321).
NoRiskLabel == <<"zheng", "chang">>
\* A risk label ("she zheng": political content), as in the spec's scenarios.
SheZheng == <<"she", "zheng">>

Str_timeout == <<"t", "i", "m", "e", "o", "u", "t">>
Str_network == <<"n", "e", "t", "w", "o", "r", "k">>
Str_connection == <<"c", "o", "n", "n", "e", "c", "t", "i", "o", "n">>
Str_http == <<"h", "t", "t", "p">>
Str_api == <<"a", "p", "i">>

\* Error texts an adapter puts into a failed outcome (shumei.py:243-259).
Err_API == <<"A", "P", "I", " ", "e", "r", "r", "o", "r">>
Err_Timeout == <<"R", "e", "q", "u", "e", "s", "t", " ", "t", "i", "m", "e", "o", "u", "t">>
Err_Network == <<"N", "e", "t", "w", "o", "r", "k", " ", "e", "r", "r", "o", "r">>
Err_HTTP == <<"H", "T", "T", "P", " ", "5", "0", "0">>
Err_GatewayTimeout == <<"H", "T", "T", "P", " ", "5", "0", "4", ":", " ", "G", "a", "t", "e", "w", "a", "y", " ", "T", "i", "m", "e", "o", "u", "t">>
Err_BadGateway == <<"H", "T", "T", "P", " ", "5", "0", "2", ":", " ", "A", "P", "I", " ", "g", "a", "t", "e", "w", "a", "y">>
Err_Unexpected == <<"U", "n", "e", "x", "p", "e", "c", "t", "e", "d", " ", "e", "r", "r", "o", "r">>
\* str(e) of exceptions raised by an adapter call or by a callback.
Exc_Connection == <<"C", "o", "n", "n", "e", "c", "t", "i", "o", "n", " ", "a", "b", "o", "r", "t", "e", "d">>
Exc_Pool == <<"H", "T", "T", "P", "S", "C", "o", "n", "n", "e", "c", "t", "i", "o", "n", "P", "o", "o", "l", ":", " ", "M", "a", "x", " ", "r", "e", "t", "r", "i", "e", "s">>
Exc_Boom == <<"b", "o", "o", "m">>
Exc_Callback == <<"c", "b">>

\* ------------------------------------------------------------------ data
RiskLevel == {"PASS", "REVIEW", "REJECT"}
ContentType == {"text", "image"}

\* ModerationResult (the fields the core reads).
ModerationResult(success, error, risk_level, risk_label, response_time) ==
    [success |-> success, error |-> error, risk_level |-> risk_level,
     risk_label |-> risk_label, response_time |-> response_time]

\* error_result without error=str(e): the exception text is dropped.
error_result_without_text(text) == ModerationResult(FALSE, None, "PASS", NoRiskLabel, 0)

\* The failed outcome the driver builds from a caught exception; the fields it
\* does not pass keep the dataclass defaults.
error_result(text) == ModerationResult(FALSE, text, "PASS", NoRiskLabel, 0)

\* ------------------------------------------------------------------ MetricsCollector
ErrorTypeNames ==
    {"Unknown", "Timeout", "Network Error", "HTTP Error", "API Error", "Other"}

_categorize_error_http_first(error) ==
    IF error = None \/ error = <<>> THEN "Unknown"
    ELSE LET error_lower == Lower(error) IN
         IF Contains(Str_http, error_lower) THEN "HTTP Error"
         ELSE IF Contains(Str_timeout, error_lower) THEN "Timeout"
         ELSE IF Contains(Str_network, error_lower)
                 \/ Contains(Str_connection, error_lower) THEN "Network Error"
         ELSE IF Contains(Str_api, error_lower) THEN "API Error"
         ELSE "Other"

\* MetricsCollector._categorize_error
_categorize_error(error) ==
    IF error = None \/ error = <<>> THEN "Unknown"
    ELSE LET error_lower == Lower(error) IN
         IF Contains(Str_timeout, error_lower) THEN "Timeout"
         ELSE IF Contains(Str_network, error_lower)
                 \/ Contains(Str_connection, error_lower) THEN "Network Error"
         ELSE IF Contains(Str_http, error_lower) THEN "HTTP Error"
         ELSE IF Contains(Str_api, error_lower) THEN "API Error"
         ELSE "Other"

\* Categories of the test corpus ("" is the empty category).
Categories == {<<>>, <<"p">>}

\* MetricsCollector.__init__
NewCollector ==
    [response_times |-> <<>>,
     results |-> <<>>,
     success_count |-> 0,
     fail_count |-> 0,
     timeout_count |-> 0,
     true_positive |-> 0,
     true_negative |-> 0,
     false_positive |-> 0,
     false_negative |-> 0,
     error_types |-> [t \in ErrorTypeNames |-> 0],
     category_results |-> [g \in Categories \ {<<>>} |-> <<>>],
     started |-> FALSE,
     stopped |-> FALSE]

\* MetricsCollector.record, "Record basic result": the dict appended to
\* self.results.
result_record(result, expected_risk) ==
    [success |-> result.success,
     response_time |-> result.response_time,
     expected |-> expected_risk,
     actual |-> result.risk_label,
     risk_level |-> result.risk_level,
     error |-> result.error]

\* update_counters counting a timed-out failure in timeout_count only.
update_counters_timeout_apart(c, result) ==
    IF result.success
    THEN [c EXCEPT !.success_count = @ + 1,
                   !.response_times = Append(@, result.response_time)]
    ELSE LET is_timeout == result.error # None /\ result.error # <<>>
                           /\ Contains(Str_timeout, Lower(result.error))
             error_type == _categorize_error(result.error)
         IN [c EXCEPT !.fail_count = IF is_timeout THEN @ ELSE @ + 1,
                      !.timeout_count = IF is_timeout THEN @ + 1 ELSE @,
                      !.error_types = [@ EXCEPT ![error_type] = @ + 1]]

\* update_counters keeping a latency sample of every outcome.
update_counters_sampling_failures(c, result) ==
    LET is_timeout == result.error # None /\ result.error # <<>>
                      /\ Contains(Str_timeout, Lower(result.error))
        error_type == _categorize_error(result.error)
        c1 == [c EXCEPT !.response_times = Append(@, result.response_time)]
    IN IF result.success
       THEN [c1 EXCEPT !.success_count = @ + 1]
       ELSE [c1 EXCEPT !.fail_count = @ + 1,
                       !.timeout_count = IF is_timeout THEN @ + 1 ELSE @,
                       !.error_types = [@ EXCEPT ![error_type] = @ + 1]]

\* MetricsCollector.record, "Update counters".
update_counters(c, result) ==
    IF result.success
    THEN [c EXCEPT !.success_count = @ + 1,
                   !.response_times = Append(@, result.response_time)]
    ELSE LET is_timeout == result.error # None /\ result.error # <<>>
                           /\ Contains(Str_timeout, Lower(result.error))
             error_type == _categorize_error(result.error)
         IN [c EXCEPT !.fail_count = @ + 1,
                      !.timeout_count = IF is_timeout THEN @ + 1 ELSE @,
                      !.error_types = [@ EXCEPT ![error_type] = @ + 1]]

\* MetricsCollector.record, "Update confusion matrix".
update_confusion_matrix(c, result, expected_risk) ==
    LET is_positive_expected == expected_risk # NoRiskLabel
        is_positive_actual == result.risk_label # NoRiskLabel
    IN IF is_positive_expected /\ is_positive_actual
       THEN [c EXCEPT !.true_positive = @ + 1]
       ELSE IF ~is_positive_expected /\ ~is_positive_actual
       THEN [c EXCEPT !.true_negative = @ + 1]
       ELSE IF ~is_positive_expected /\ is_positive_actual
       THEN [c EXCEPT !.false_positive = @ + 1]
       ELSE [c EXCEPT !.false_negative = @ + 1]

\* MetricsCollector.record, "Track by category".
track_category(c, rec, category) ==
    IF category # <<>>
    THEN [c EXCEPT !.category_results[category] = Append(@, rec)]
    ELSE c

\* MetricsCollector.record
record(c, result, expected_risk, category) ==
    LET rec == result_record(result, expected_risk)
        c1 == [c EXCEPT !.results = Append(@, rec)]
        c2 == update_counters(c1, result)
        c3 == update_confusion_matrix(c2, result, expected_risk)
    IN track_category(c3, rec, category)

\* ------------------------------------------------------------------ calculate()
RECURSIVE GCD(_, _)
GCD(a, b) == IF b = 0 THEN a ELSE GCD(b, a % b)

\* A Python float that is the quotient n / d of two integers, kept exact and in
\* lowest terms (d > 0).
Ratio(n, d) == LET g == GCD(n, d) IN
               IF n = 0 THEN [num |-> 0, den |-> 1]
               ELSE [num |-> n \div g, den |-> d \div g]

RECURSIVE SumSeq(_)
SumSeq(s) == IF s = <<>> THEN 0 ELSE Head(s) + SumSeq(Tail(s))

unsorted(s) == s

sorted_descending(s) == SortSeq(s, LAMBDA a, b : a > b)

\* sorted(self.response_times)
sorted(s) == SortSeq(s, LAMBDA a, b : a < b)

_percentile_rounding_up(sorted_data, percentile) ==
    IF sorted_data = <<>> THEN 0
    ELSE LET n == Len(sorted_data)
             index0 == (n * percentile + 99) \div 100 - 1
             index == IF index0 < n - 1 THEN index0 ELSE n - 1
         IN sorted_data[index + 1]

\* MetricsCollector._percentile (sorted_data is 0-indexed in the source)
_percentile(sorted_data, percentile) ==
    IF sorted_data = <<>> THEN 0
    ELSE LET n == Len(sorted_data)
             index0 == (n * percentile) \div 100
             index == IF index0 < n - 1 THEN index0 ELSE n - 1
         IN sorted_data[index + 1]

\* _is_match without the relaxed rule for two risk labels.
_is_match_exact(expected, actual) == expected = actual

\* MetricsCollector._is_match
_is_match(expected, actual) ==
    IF expected = actual THEN TRUE
    ELSE IF expected = NoRiskLabel /\ actual = NoRiskLabel THEN TRUE
    ELSE IF expected # NoRiskLabel /\ actual # NoRiskLabel
            /\ (Contains(expected, actual) \/ Contains(actual, expected)) THEN TRUE
    ELSE FALSE

percentage_as_fraction(count, denominator) ==
    IF denominator > 0 THEN Ratio(count, denominator) ELSE Ratio(0, 1)

\* "(count / denominator) * 100 if denominator > 0", else the default 0.0
percentage(count, denominator) ==
    IF denominator > 0 THEN Ratio(100 * count, denominator) ELSE Ratio(0, 1)

\* MetricsCollector.calculate.  total_duration and qps, which depend on the
\* wall clock, are left out.
calculate(c) ==
    LET sorted_times == sorted(c.response_times)
        n == Len(sorted_times)
        has_times == n > 0
        total_predictions == c.true_positive + c.true_negative
                             + c.false_positive + c.false_negative
        precision == percentage(c.true_positive,
                                c.true_positive + c.false_positive)
        recall == percentage(c.true_positive,
                             c.true_positive + c.false_negative)
        \* precision + recall, as one fraction
        pr_sum == Ratio(precision.num * recall.den + recall.num * precision.den,
                        precision.den * recall.den)
        cats == {g \in DOMAIN c.category_results : c.category_results[g] # <<>>}
    IN [total_requests |-> Len(c.results),
        success_count |-> c.success_count,
        fail_count |-> c.fail_count,
        timeout_count |-> c.timeout_count,
        true_positive |-> c.true_positive,
        true_negative |-> c.true_negative,
        false_positive |-> c.false_positive,
        false_negative |-> c.false_negative,
        error_types |-> [t \in {u \in ErrorTypeNames : c.error_types[u] > 0}
                           |-> c.error_types[t]],
        response_times |-> sorted_times,
        avg_response_time |->
            IF has_times THEN Ratio(SumSeq(sorted_times), n) ELSE Ratio(0, 1),
        min_response_time |-> IF has_times THEN sorted_times[1] ELSE 0,
        max_response_time |-> IF has_times THEN sorted_times[n] ELSE 0,
        p50_response_time |-> IF has_times THEN _percentile(sorted_times, 50) ELSE 0,
        p95_response_time |-> IF has_times THEN _percentile(sorted_times, 95) ELSE 0,
        p99_response_time |-> IF has_times THEN _percentile(sorted_times, 99) ELSE 0,
        accuracy |-> percentage(c.true_positive + c.true_negative,
                                total_predictions),
        precision |-> precision,
        recall |-> recall,
        f1_score |->
            IF pr_sum.num > 0
            THEN Ratio(2 * precision.num * recall.num * pr_sum.den,
                       precision.den * recall.den * pr_sum.num)
            ELSE Ratio(0, 1),
        category_metrics |->
            [g \in cats |->
                LET results == c.category_results[g]
                    category_success ==
                        Cardinality({k \in 1..Len(results) : results[k].success})
                    category_match ==
                        Cardinality({k \in 1..Len(results) :
                                        /\ results[k].success
                                        /\ _is_match(results[k].expected,
                                                     results[k].actual)})
                IN [total |-> Len(results),
                    success |-> category_success,
                    match_count |-> category_match,
                    match_rate |-> Ratio(100 * category_match, Len(results))]]]

\* ------------------------------------------------------------------ the driver
\* _check_mismatch judging the actual side by the label text, as record() does.
_check_mismatch_by_label(test_case, mod_result, content_type) ==
    IF ~mod_result.success THEN <<>>
    ELSE LET expected_is_risk == test_case.expected_risk # NoRiskLabel
             actual_is_risk == mod_result.risk_label # NoRiskLabel
         IN IF expected_is_risk = actual_is_risk THEN <<>>
            ELSE << [case_id |-> test_case.id,
                     content_type |-> content_type,
                     expected_risk |-> test_case.expected_risk,
                     actual_risk_level |-> mod_result.risk_level,
                     actual_risk_label |-> mod_result.risk_label,
                     response_time_ms |-> mod_result.response_time] >>

\* BenchmarkRunner._check_mismatch: the empty sequence stands for None, a
\* one-element sequence for the MismatchRecord.
_check_mismatch(test_case, mod_result, content_type) ==
    IF ~mod_result.success THEN <<>>
    ELSE LET expected_is_risk == test_case.expected_risk # NoRiskLabel
             actual_is_risk == mod_result.risk_level # "PASS"
         IN IF expected_is_risk = actual_is_risk THEN <<>>
            ELSE << [case_id |-> test_case.id,
                     content_type |-> content_type,
                     expected_risk |-> test_case.expected_risk,
                     actual_risk_level |-> mod_result.risk_level,
                     actual_risk_label |-> mod_result.risk_label,
                     response_time_ms |-> mod_result.response_time] >>

VARIABLES
    test_cases,      \* the case list given to _run_benchmark
    content_type,    \* "text" or "image"
    max_workers,     \* self.config.max_workers
    on_result,       \* whether self._on_result is set
    on_progress,     \* whether self._on_progress is set
    pc,              \* where the main thread is: submit, sleep, collect, done
    submitted,       \* how many cases the submission loop has submitted
    futures,         \* per case: the state of its future and its outcome
    yielded,         \* the cases as_completed has already yielded
    calls,           \* per case: adapter calls made, by method
    collector,       \* the MetricsCollector
    record_case,     \* per entry of collector.results: the case it was recorded for
    mismatches,      \* the mismatch list
    completed,       \* the loop's completed counter
    result_calls,    \* the case ids self._on_result was called with, in order
    progress_calls,  \* the (completed, total) pairs self._on_progress got
    returned,        \* <<>>, or << the value returned >>
    inputs,          \* (outcome, expected label, category) triples to be recorded
    order,           \* a permutation of the positions of inputs
    permuted,        \* a second fresh MetricsCollector, fed in that order
    plan,            \* the batch of outcomes a collector is to be fed
    vendor,          \* the adapter whose call is in progress
    call_pc,         \* where that call is: idle, attempt, backoff, return, returned
    attempt,         \* how many iterations of its retry loop have run
    call_result,     \* the ModerationResult the call is filling in
    attempt_log,     \* what each attempt met, in order
    sleeps,          \* how many times the call has slept before a retry
    run_pc,          \* where BenchmarkRunner.run is
    run_args,        \* its arguments, which it reassigns as it goes
    bench_result,    \* the BenchmarkResult it is filling in
    cmp_pc,          \* where MultiProviderRunner.run_comparison is
    providers,       \* self.providers: the names of the added providers
    corpus,          \* what run_comparison loaded, and its test_text/test_image
    provider_index,  \* the position of its loop over the providers
    comparison_results,  \* self.results: provider name -> BenchmarkResult
    received,        \* the case lists each call of run() was given
    calculated,      \* what the calls of collector.calculate() returned, in order
    export_pc,       \* where _write_mismatch_csv is
    export_list,     \* its mismatches argument
    csv_file,        \* the rows it has written to the file
    duration_hours,  \* ScheduledBenchmark.duration_hours
    interval_hours,  \* ScheduledBenchmark.interval_hours
    total_rounds,    \* ScheduledBenchmark.total_rounds
    round_results,   \* ScheduledBenchmark.round_results
    sched_pc,        \* where ScheduledBenchmark.run is
    now,             \* datetime.now(), in ticks since run() started
    end_time,        \* run()'s end_time
    round_num,       \* run()'s round_num
    round_start      \* run()'s round_start

vars == <<test_cases, content_type, max_workers, on_result, on_progress, pc,
          submitted, futures, yielded, calls, collector, record_case,
          mismatches, completed, result_calls, progress_calls, returned,
          inputs, order, permuted, plan,
          vendor, call_pc, attempt, call_result, attempt_log,
          run_pc, run_args, bench_result,
          cmp_pc, providers, corpus, provider_index, comparison_results, received,
          sleeps, calculated, export_pc, export_list, csv_file,
          duration_hours, interval_hours, total_rounds, round_results, sched_pc,
          now, end_time, round_num, round_start>>

\* The variables of a collector's feed.
feed_vars == <<inputs, order, permuted>>
\* The variables that only the stand-alone parts use.
\* The variables of one adapter call.
call_vars == <<vendor, call_pc, attempt, call_result, attempt_log, sleeps>>
\* The variables of BenchmarkRunner.run.
run_vars == <<run_pc, run_args, bench_result>>
\* The variables of MultiProviderRunner.
comparison_vars == <<cmp_pc, providers, corpus, provider_index, comparison_results,
                     received>>
\* The variables of _write_mismatch_csv.
export_vars == <<export_pc, export_list, csv_file>>
\* The variables of ScheduledBenchmark.
sched_vars == <<duration_hours, interval_hours, total_rounds, round_results,
                sched_pc, now, end_time, round_num, round_start>>
\* The variables of the parts around a run: calculate() calls on a collector,
\* the CSV export, the scheduled benchmark.
outer_vars == <<calculated, export_vars, sched_vars>>
harness_vars == <<feed_vars, plan, outer_vars, call_vars, run_vars, comparison_vars>>

config_vars == <<test_cases, content_type, max_workers, on_result, on_progress>>

\* The variables of _run_benchmark, the collector apart.
driver_vars == <<config_vars, pc, submitted, futures, yielded, calls, record_case,
                 mismatches, completed, result_calls, progress_calls, returned>>

\* No feed is set up.
NoFeed ==
    /\ inputs = <<>>
    /\ order = <<>>
    /\ permuted = NewCollector

\* No batch is planned.
NoPlan == plan = <<>>

\* No adapter call is modelled step by step.
NoCall ==
    /\ vendor = "none"
    /\ call_pc = "idle"
    /\ attempt = 0
    /\ call_result = <<>>
    /\ attempt_log = <<>>
    /\ sleeps = 0

\* BenchmarkRunner.run is not in progress.
NoBenchmark ==
    /\ run_pc = "idle"
    /\ run_args = <<>>
    /\ bench_result = <<>>

\* No MultiProviderRunner is in use.
NoComparison ==
    /\ cmp_pc = "idle"
    /\ providers = <<>>
    /\ corpus = <<>>
    /\ provider_index = 0
    /\ comparison_results = <<>>
    /\ received = <<>>

\* calculate() has not been called.
NoCalculation == calculated = <<>>

\* No CSV file is being written.
NoExport ==
    /\ export_pc = "idle"
    /\ export_list = <<>>
    /\ csv_file = <<>>

\* No ScheduledBenchmark is in use.
NoSchedule ==
    /\ duration_hours = 0
    /\ interval_hours = 0
    /\ total_rounds = 0
    /\ round_results = <<>>
    /\ sched_pc = "idle"
    /\ now = 0
    /\ end_time = 0
    /\ round_num = 0
    /\ round_start = 0

NoOuter == NoCalculation /\ NoExport /\ NoSchedule

\* The labelled cases a corpus is made of (expected_risk, category).
CasePool ==
    {[expected_risk |-> NoRiskLabel, category |-> <<>>],
     [expected_risk |-> SheZheng, category |-> <<"p">>]}

\* TestCase lists of length n; a case's id is unique within the run.
CaseLists(n) ==
    {[i \in 1..n |-> [id |-> i,
                      expected_risk |-> f[i].expected_risk,
                      category |-> f[i].category]] : f \in [1..n -> CasePool]}

\* What one adapter call can do: return a ModerationResult (successful or
\* failed), or raise.
AdapterResults ==
    {ModerationResult(TRUE, None, "PASS", NoRiskLabel, 1),
     ModerationResult(TRUE, None, "REVIEW", SheZheng, 1),
     ModerationResult(TRUE, None, "REJECT", NoRiskLabel, 2),
     ModerationResult(FALSE, Err_API, "PASS", NoRiskLabel, 1)}

AdapterExceptions == {Exc_Boom}

NoResult == ModerationResult(FALSE, None, "PASS", NoRiskLabel, 0)
Returned(r) == [kind |-> "return", value |-> r, text |-> <<>>]
Raised(t) == [kind |-> "raise", value |-> NoResult, text |-> t]
NoOutcome == [kind |-> "none", value |-> NoResult, text |-> <<>>]

AdapterOutcomes ==
    {Returned(r) : r \in AdapterResults} \cup {Raised(t) : t \in AdapterExceptions}

NoCalls == [moderate_text |-> 0, moderate_image |-> 0]

N == Len(test_cases)
Running == {i \in 1..N : futures[i].state = "running"}
Pending == {i \in 1..N : futures[i].state = "pending"}

\* _run_benchmark up to the submission loop: a fresh collector, started, an
\* empty mismatch list and an executor with no task.
Init ==
    /\ test_cases \in UNION {CaseLists(n) : n \in 1..MaxCases}
    /\ content_type \in ContentType
    /\ max_workers \in 1..MaxWorkers
    /\ on_result \in BOOLEAN
    /\ on_progress \in BOOLEAN
    /\ pc = "submit"
    /\ submitted = 0
    /\ futures = [i \in 1..Len(test_cases) |-> [state |-> "none", outcome |-> NoOutcome]]
    /\ yielded = {}
    /\ calls = [i \in 1..Len(test_cases) |-> NoCalls]
    /\ collector = [NewCollector EXCEPT !.started = TRUE]
    /\ record_case = <<>>
    /\ mismatches = <<>>
    /\ completed = 0
    /\ result_calls = <<>>
    /\ progress_calls = <<>>
    /\ returned = <<>>
    /\ NoFeed
    /\ NoPlan
    /\ NoOuter
    /\ NoCall
    /\ NoBenchmark
    /\ NoComparison

\* executor.submit(self._moderate_single, test_case, content_type) for the next
\* case of the list.
Submit ==
    /\ pc = "submit"
    /\ submitted < N
    /\ futures' = [futures EXCEPT ![submitted + 1].state = "pending"]
    /\ submitted' = submitted + 1
    /\ pc' = "sleep"
    /\ UNCHANGED <<config_vars, harness_vars, yielded, calls, collector, record_case, mismatches,
                   completed, result_calls, progress_calls, returned>>

\* Sleep leading straight to the collection loop.
SleepThenCollect ==
    /\ pc = "sleep"
    /\ pc' = "collect"
    /\ UNCHANGED <<config_vars, harness_vars, submitted, futures, yielded, calls, collector,
                   record_case, mismatches, completed, result_calls,
                   progress_calls, returned>>

\* Sleep as a wait for the task just submitted to finish.
SleepUntilCompletion ==
    /\ pc = "sleep"
    /\ futures[submitted].state = "finished"
    /\ pc' = IF submitted < N THEN "submit" ELSE "collect"
    /\ UNCHANGED <<config_vars, harness_vars, submitted, futures, yielded, calls, collector,
                   record_case, mismatches, completed, result_calls,
                   progress_calls, returned>>

\* time.sleep(self.config.request_interval) returns; the for loop goes on to the
\* next case, or ends.
Sleep ==
    /\ pc = "sleep"
    /\ pc' = IF submitted < N THEN "submit" ELSE "collect"
    /\ UNCHANGED <<config_vars, harness_vars, submitted, futures, yielded, calls, collector,
                   record_case, mismatches, completed, result_calls,
                   progress_calls, returned>>

\* BenchmarkRunner._moderate_single: which adapter method a task calls.
_moderate_single(c, kind) ==
    IF kind = "text"
    THEN [c EXCEPT !.moderate_text = @ + 1]
    ELSE [c EXCEPT !.moderate_image = @ + 1]

\* WorkerStart with a thread per submitted task, whatever max_workers is.
WorkerStartUncapped(i) ==
    /\ i \in Pending
    /\ \A j \in Pending : i <= j
    /\ futures' = [futures EXCEPT ![i].state = "running"]
    /\ calls' = [calls EXCEPT ![i] = _moderate_single(@, content_type)]
    /\ UNCHANGED <<config_vars, harness_vars, pc, submitted, yielded, collector, record_case,
                   mismatches, completed, result_calls, progress_calls, returned>>

\* A pool thread takes the oldest queued task and enters the adapter call.  The
\* executor runs at most max_workers threads.
WorkerStart(i) ==
    /\ i \in Pending
    /\ \A j \in Pending : i <= j
    /\ Cardinality(Running) < max_workers
    /\ futures' = [futures EXCEPT ![i].state = "running"]
    /\ calls' = [calls EXCEPT ![i] = _moderate_single(@, content_type)]
    /\ UNCHANGED <<config_vars, harness_vars, pc, submitted, yielded, collector, record_case,
                   mismatches, completed, result_calls, progress_calls, returned>>

\* WorkerFinish with the worker thread recording its own outcome.
WorkerFinishRecording(i, outcome) ==
    /\ i \in Running
    /\ futures' = [futures EXCEPT ![i] = [state |-> "finished", outcome |-> outcome]]
    /\ collector' = IF outcome.kind = "return"
                    THEN record(collector, outcome.value,
                                test_cases[i].expected_risk, test_cases[i].category)
                    ELSE collector
    /\ UNCHANGED <<config_vars, harness_vars, pc, submitted, yielded, calls,
                   record_case, mismatches, completed, result_calls,
                   progress_calls, returned>>

\* The adapter call of task i returns or raises; the future is finished.
WorkerFinish(i, outcome) ==
    /\ i \in Running
    /\ futures' = [futures EXCEPT ![i] = [state |-> "finished", outcome |-> outcome]]
    /\ UNCHANGED <<config_vars, harness_vars, pc, submitted, yielded, calls, collector,
                   record_case, mismatches, completed, result_calls,
                   progress_calls, returned>>

\* Drain without the except handler: an exception from future.result() or from
\* the callback leaves the loop and the run.
DrainWithoutExcept(i, cb_raises) ==
    /\ pc = "collect"
    /\ i \in 1..N
    /\ i \notin yielded
    /\ futures[i].state = "finished"
    /\ LET test_case == test_cases[i]
           outcome == futures[i].outcome
           got == outcome.kind = "return"
           called == got /\ on_result
           thrown == ~got \/ (called /\ cb_raises)
       IN /\ collector' = IF got
                          THEN record(collector, outcome.value,
                                      test_case.expected_risk, test_case.category)
                          ELSE collector
          /\ record_case' = record_case \o (IF got THEN <<i>> ELSE <<>>)
          /\ mismatches' = mismatches
                           \o (IF got
                               THEN _check_mismatch(test_case, outcome.value, content_type)
                               ELSE <<>>)
          /\ result_calls' = IF called THEN Append(result_calls, test_case.id)
                             ELSE result_calls
          /\ pc' = IF thrown THEN "raised" ELSE pc
          /\ completed' = IF thrown THEN completed ELSE completed + 1
          /\ progress_calls' = IF on_progress /\ ~thrown
                               THEN Append(progress_calls, <<completed + 1, N>>)
                               ELSE progress_calls
    /\ yielded' = yielded \cup {i}
    /\ UNCHANGED <<config_vars, harness_vars, submitted, futures, calls, returned>>

\* "completed += 1" has happened: completed_count is the new counter value.
\* The callback's arguments are logged when a callback is registered.
report_progress_before_increment(log, completed_count, total) ==
    IF on_progress THEN Append(log, <<completed_count - 1, total>>) ELSE log

report_progress(log, completed_count, total) ==
    IF on_progress THEN Append(log, <<completed_count, total>>) ELSE log

\* One iteration of "for future in as_completed(futures)": the try block, its
\* except handler, the counter and the progress callback.  cb_raises is what the
\* on_result callback does when it is called.  The progress callback, which is
\* called outside the try block, is taken to return.
Drain(i, cb_raises) ==
    /\ pc = "collect"
    /\ i \in 1..N
    /\ i \notin yielded
    /\ futures[i].state = "finished"
    /\ LET test_case == test_cases[i]
           outcome == futures[i].outcome
           got == outcome.kind = "return"
           \* try: record, _check_mismatch, on_result
           c1 == IF got
                 THEN record(collector, outcome.value, test_case.expected_risk,
                             test_case.category)
                 ELSE collector
           mismatch == IF got
                       THEN _check_mismatch(test_case, outcome.value, content_type)
                       ELSE <<>>
           called == got /\ on_result
           \* except Exception as e
           caught == ~got \/ (called /\ cb_raises)
           e == IF got THEN Exc_Callback ELSE outcome.text
           c2 == IF caught
                 THEN record(c1, error_result(e), test_case.expected_risk,
                             test_case.category)
                 ELSE c1
       IN /\ collector' = c2
          /\ record_case' = record_case
                            \o (IF got THEN <<i>> ELSE <<>>)
                            \o (IF caught THEN <<i>> ELSE <<>>)
          /\ mismatches' = mismatches \o mismatch
          /\ result_calls' = IF called THEN Append(result_calls, test_case.id)
                             ELSE result_calls
    /\ yielded' = yielded \cup {i}
    /\ completed' = completed + 1
    /\ progress_calls' = report_progress(progress_calls, completed', N)
    /\ UNCHANGED <<config_vars, harness_vars, pc, submitted, futures, calls, returned>>

\* as_completed is exhausted, the executor shuts down, collector.stop(),
\* return collector.calculate(), mismatches.
Return ==
    /\ pc = "collect"
    /\ yielded = 1..N
    /\ collector' = [collector EXCEPT !.stopped = TRUE]
    /\ returned' = << [metrics |-> calculate(collector'), mismatches |-> mismatches] >>
    /\ pc' = "done"
    /\ UNCHANGED <<config_vars, harness_vars, submitted, futures, yielded, calls, record_case,
                   mismatches, completed, result_calls, progress_calls>>

Next ==
    \/ Submit
    \/ Sleep
    \/ \E i \in 1..N : WorkerStart(i)
    \/ \E i \in 1..N : \E outcome \in AdapterOutcomes : WorkerFinish(i, outcome)
    \/ \E i \in 1..N : \E cb_raises \in BOOLEAN : Drain(i, cb_raises)
    \/ Return

Spec == Init /\ [][Next]_vars

\* ------------------------------------------------------------------ a collector on its own
\* The outcomes handed to record(): every risk level with a no-risk or a risk
\* label, and failed outcomes with and without an error text.
RecordResults ==
    {ModerationResult(TRUE, None, lv, lb, t) :
        lv \in RiskLevel, lb \in {NoRiskLabel, SheZheng}, t \in {1, 2}}
    \cup {ModerationResult(FALSE, e, "PASS", NoRiskLabel, 0) :
            e \in {None, Err_API, Err_Timeout}}

\* No run of _run_benchmark is in progress.
NoRun ==
    /\ test_cases = <<>>
    /\ content_type = "text"
    /\ max_workers = 1
    /\ on_result = FALSE
    /\ on_progress = FALSE
    /\ pc = "idle"
    /\ submitted = 0
    /\ futures = <<>>
    /\ yielded = {}
    /\ calls = <<>>
    /\ record_case = <<>>
    /\ mismatches = <<>>
    /\ completed = 0
    /\ result_calls = <<>>
    /\ progress_calls = <<>>
    /\ returned = <<>>

\* A fresh MetricsCollector and no run.
InitCollector ==
    /\ NoRun
    /\ collector = NewCollector
    /\ NoFeed
    /\ NoPlan
    /\ NoOuter
    /\ NoCall
    /\ NoBenchmark
    /\ NoComparison

\* collector.record(result, expected_risk, category)
RecordCall(result, expected_risk, category) ==
    /\ pc = "idle"
    /\ Len(collector.results) < MaxRecords
    /\ collector' = record(collector, result, expected_risk, category)
    /\ UNCHANGED <<config_vars, harness_vars, pc, submitted, futures, yielded, calls, record_case,
                   mismatches, completed, result_calls, progress_calls, returned>>

NextCollector ==
    \E result \in RecordResults : \E tc \in CasePool :
        RecordCall(result, tc.expected_risk, tc.category)

CollectorSpec == InitCollector /\ [][NextCollector]_vars

\* ------------------------------------------------------------------ a collector fed failures
\* The error texts of failed outcomes: none, the empty text, the texts the
\* adapters write, and texts of exceptions the driver catches.
ErrorTexts ==
    {None, <<>>, Err_Timeout, Err_Network, Err_HTTP, Err_API, Err_Unexpected,
     Err_GatewayTimeout, Err_BadGateway, Exc_Connection, Exc_Pool, Exc_Boom}

\* Failed outcomes with every error text (a failed call still has a measured
\* latency), and one successful outcome.
FailureResults ==
    {ModerationResult(FALSE, e, "PASS", NoRiskLabel, 1) : e \in ErrorTexts}
    \cup {ModerationResult(TRUE, None, "PASS", NoRiskLabel, 2)}

NextFailure ==
    \E result \in FailureResults : RecordCall(result, NoRiskLabel, <<>>)

FailureSpec == InitCollector /\ [][NextFailure]_vars

\* ------------------------------------------------------------------ two collectors, one multiset
\* The triples a feed is drawn from: successes of every cell with their own
\* latencies and categories, and failures with two kinds of error text.
FeedInputs ==
    {[result |-> ModerationResult(TRUE, None, "PASS", NoRiskLabel, 3),
      expected_risk |-> NoRiskLabel, category |-> <<>>],
     [result |-> ModerationResult(TRUE, None, "REJECT", SheZheng, 1),
      expected_risk |-> SheZheng, category |-> <<"p">>],
     [result |-> ModerationResult(TRUE, None, "REVIEW", SheZheng, 2),
      expected_risk |-> NoRiskLabel, category |-> <<"p">>],
     [result |-> ModerationResult(FALSE, Err_Timeout, "PASS", NoRiskLabel, 0),
      expected_risk |-> SheZheng, category |-> <<"p">>],
     [result |-> ModerationResult(FALSE, Err_API, "PASS", NoRiskLabel, 0),
      expected_risk |-> NoRiskLabel, category |-> <<>>]}

\* The permutations of 1..n, as sequences.
Orders(n) == {f \in [1..n -> 1..n] : \A i, j \in 1..n : f[i] = f[j] => i = j}

\* Two fresh collectors, a list of triples and an order to feed it in.
InitFeed ==
    /\ NoRun
    /\ collector = NewCollector
    /\ permuted = NewCollector
    /\ inputs \in UNION {[1..n -> FeedInputs] : n \in 1..MaxRecords}
    /\ order \in Orders(Len(inputs))
    /\ NoPlan
    /\ NoOuter
    /\ NoCall
    /\ NoBenchmark
    /\ NoComparison

\* collector.record(...) with the next triple of the list.
FeedInOrder ==
    /\ Len(collector.results) < Len(inputs)
    /\ LET x == inputs[Len(collector.results) + 1]
       IN collector' = record(collector, x.result, x.expected_risk, x.category)
    /\ UNCHANGED <<driver_vars, feed_vars, plan, outer_vars, call_vars, run_vars, comparison_vars>>

\* record(...) on the second collector with the next triple of the permuted list.
FeedPermuted ==
    /\ Len(permuted.results) < Len(inputs)
    /\ LET x == inputs[order[Len(permuted.results) + 1]]
       IN permuted' = record(permuted, x.result, x.expected_risk, x.category)
    /\ UNCHANGED <<driver_vars, collector, inputs, order, plan, outer_vars, call_vars, run_vars, comparison_vars>>

NextFeed == FeedInOrder \/ FeedPermuted

FeedSpec == InitFeed /\ [][NextFeed]_vars

\* ------------------------------------------------------------------ a collector fed a batch
\* How the latencies of a batch run: the k-th of total outcomes takes
\* 10k ms, 10(total + 1 - k) ms, the two alternating, or always 50 ms.
LatencyPatterns == {"ascending", "descending", "zigzag", "constant"}

Latency(pattern, k, total) ==
    CASE pattern = "ascending" -> 10 * k
      [] pattern = "descending" -> 10 * (total + 1 - k)
      [] pattern = "zigzag" -> IF k % 2 = 1 THEN 10 * k ELSE 10 * (total + 1 - k)
      [] OTHER -> 50

\* A batch: so many successful REJECT outcomes on risk cases, PASS on no-risk
\* cases, REVIEW on no-risk cases, PASS on risk cases, and failed outcomes;
\* the label the REJECT outcomes carry; the latency pattern.  Short batches
\* of every composition, and long batches of PASS on no-risk cases.
Plans ==
    {[risk_reject |-> 0, safe_pass |-> LongBatch, safe_review |-> 0,
      risk_pass |-> 0, failed |-> 0, reject_label |-> SheZheng, latency |-> l] :
        l \in LatencyPatterns}
    \cup
    {q \in [risk_reject : 0..MaxBatch, safe_pass : 0..MaxBatch,
             safe_review : 0..MaxBatch, risk_pass : 0..MaxBatch,
             failed : 0..MaxBatch, reject_label : {SheZheng, NoRiskLabel},
             latency : LatencyPatterns] :
        q.risk_reject + q.safe_pass + q.safe_review + q.risk_pass + q.failed
            <= MaxBatch}

PlanTotal(q) == q.risk_reject + q.safe_pass + q.safe_review + q.risk_pass + q.failed

\* The k-th outcome of batch q with its case's expected label.
BatchInput(q, k) ==
    LET t == Latency(q.latency, k, PlanTotal(q))
    IN IF k <= q.risk_reject
       THEN [result |-> ModerationResult(TRUE, None, "REJECT", q.reject_label, t),
             expected_risk |-> SheZheng]
       ELSE IF k <= q.risk_reject + q.safe_pass
       THEN [result |-> ModerationResult(TRUE, None, "PASS", NoRiskLabel, t),
             expected_risk |-> NoRiskLabel]
       ELSE IF k <= q.risk_reject + q.safe_pass + q.safe_review
       THEN [result |-> ModerationResult(TRUE, None, "REVIEW", SheZheng, t),
             expected_risk |-> NoRiskLabel]
       ELSE IF k <= q.risk_reject + q.safe_pass + q.safe_review + q.risk_pass
       THEN [result |-> ModerationResult(TRUE, None, "PASS", NoRiskLabel, t),
             expected_risk |-> SheZheng]
       ELSE [result |-> ModerationResult(FALSE, Err_Timeout, "PASS", NoRiskLabel, t),
             expected_risk |-> NoRiskLabel]

\* A fresh collector and a batch to feed it.
InitBatch ==
    /\ NoRun
    /\ NoFeed
    /\ collector = NewCollector
    /\ plan \in Plans
    /\ NoOuter
    /\ NoCall
    /\ NoBenchmark
    /\ NoComparison

\* collector.record(...) with the next outcome of the batch.
RecordBatch ==
    /\ plan # <<>>
    /\ Len(collector.results) < PlanTotal(plan)
    /\ LET x == BatchInput(plan, Len(collector.results) + 1)
       IN collector' = record(collector, x.result, x.expected_risk, <<>>)
    /\ UNCHANGED <<driver_vars, harness_vars>>

BatchSpec == InitBatch /\ [][RecordBatch]_vars

\* The batch has been fed whole.
BatchFed == plan # <<>> /\ Len(collector.results) = PlanTotal(plan)

\* ------------------------------------------------------------------ one adapter call
Vendors == {"shumei", "yidun", "juntong", "huoshan"}

\* What one attempt of a call can meet: the request times out; it fails in the
\* network; the answer has a status other than 200; the vendor reports an
\* error code; the body is no JSON; the body is JSON of an unexpected shape
\* (not an object, or with null where an object is expected); another
\* exception; an answer holding a verdict.
AttemptKinds ==
    {"timeout", "network", "http_error", "vendor_error", "unparsable",
     "malformed", "other", "verdict"}

\* ShumeiProvider._call_api, one iteration of the retry loop on result r.
\* level is the verdict of an answer that holds one; text is the error text of
\* the exception response.json() raises, which is a RequestException or a
\* plain ValueError depending on the version of the HTTP library.
shumei_attempt(r, kind, level, text) ==
    CASE kind = "timeout" ->
            [result |-> [r EXCEPT !.error = Err_Timeout], break |-> FALSE]
      [] kind = "network" ->
            [result |-> [r EXCEPT !.error = Err_Network], break |-> FALSE]
      [] kind = "other" ->
            [result |-> [r EXCEPT !.error = Err_Unexpected], break |-> FALSE]
      [] kind = "http_error" ->
            [result |-> [r EXCEPT !.response_time = 1, !.error = Err_HTTP],
             break |-> FALSE]
      [] kind = "unparsable" ->
            [result |-> [r EXCEPT !.response_time = 1, !.error = text],
             break |-> FALSE]
      [] kind = "malformed" ->
            \* result.success = True, then data.get(...) raises
            [result |-> [r EXCEPT !.response_time = 1, !.success = TRUE,
                                  !.error = Err_Unexpected],
             break |-> FALSE]
      [] kind = "vendor_error" ->
            [result |-> [r EXCEPT !.response_time = 1, !.success = FALSE,
                                  !.error = Err_API],
             break |-> TRUE]
      [] kind = "verdict" ->
            \* _parse_response
            [result |-> [r EXCEPT !.response_time = 1, !.success = TRUE,
                                  !.risk_level = level,
                                  !.risk_label = IF level = "PASS" THEN NoRiskLabel
                                                 ELSE SheZheng],
             break |-> TRUE]

\* YidunProvider._call_api, one iteration of the retry loop on result r: as
\* Shumei's, but result.success = True is set after the vendor's code has been
\* read; a malformed answer is one with code 200 and null where the parser
\* expects an object (a body that is no object at all raises before success
\* is set, as kind "other" does).
yidun_attempt(r, kind, level, text) ==
    CASE kind = "timeout" ->
            [result |-> [r EXCEPT !.error = Err_Timeout], break |-> FALSE]
      [] kind = "network" ->
            [result |-> [r EXCEPT !.error = Err_Network], break |-> FALSE]
      [] kind = "other" ->
            [result |-> [r EXCEPT !.error = Err_Unexpected], break |-> FALSE]
      [] kind = "http_error" ->
            [result |-> [r EXCEPT !.response_time = 1, !.error = Err_HTTP],
             break |-> FALSE]
      [] kind = "unparsable" ->
            [result |-> [r EXCEPT !.response_time = 1, !.error = text],
             break |-> FALSE]
      [] kind = "malformed" ->
            [result |-> [r EXCEPT !.response_time = 1, !.success = TRUE,
                                  !.error = Err_Unexpected],
             break |-> FALSE]
      [] kind = "vendor_error" ->
            [result |-> [r EXCEPT !.response_time = 1, !.success = FALSE,
                                  !.error = Err_API],
             break |-> TRUE]
      [] kind = "verdict" ->
            \* _parse_text_response / _parse_image_response
            [result |-> [r EXCEPT !.response_time = 1, !.success = TRUE,
                                  !.risk_level = level,
                                  !.risk_label = IF level = "PASS" THEN NoRiskLabel
                                                 ELSE SheZheng],
             break |-> TRUE]

\* JunTongProvider._call_api, one iteration of the retry loop on result r: the
\* statements of Shumei's loop, with the vendor's own success code.
juntong_attempt(r, kind, level, text) == shumei_attempt(r, kind, level, text)

\* HuoshanProvider.moderate_text, one iteration of the retry loop on result r.
\* Whatever client.Moderate raises (a body that is no JSON included) is caught
\* by the one except clause; result.success = True is set as soon as the
\* client returns, before parse_moderate_result reads the answer.
huoshan_attempt(r, kind, level, text) ==
    CASE kind \in {"timeout", "network", "http_error", "vendor_error",
                   "unparsable", "other"} ->
            [result |-> [r EXCEPT !.error = Err_API], break |-> FALSE]
      [] kind = "malformed" ->
            [result |-> [r EXCEPT !.response_time = 1, !.success = TRUE,
                                  !.error = Err_API],
             break |-> FALSE]
      [] kind = "verdict" ->
            [result |-> [r EXCEPT !.response_time = 1, !.success = TRUE,
                                  !.risk_level = IF level = "REJECT" THEN "REJECT"
                                                 ELSE "PASS",
                                  !.risk_label = IF level = "REJECT" THEN SheZheng
                                                 ELSE NoRiskLabel],
             break |-> TRUE]

\* A call of either adapter has built its fresh ModerationResult.
InitCall ==
    /\ NoRun
    /\ NoFeed
    /\ NoPlan
    /\ NoOuter
    /\ NoBenchmark
    /\ NoComparison
    /\ collector = NewCollector
    /\ vendor \in Vendors
    /\ call_pc = "attempt"
    /\ attempt = 0
    /\ call_result = NoResult
    /\ attempt_log = <<>>
    /\ sleeps = 0

\* One iteration of "for attempt in range(retry_times)", up to the sleep.
Attempt(kind, level, text) ==
    /\ call_pc = "attempt"
    /\ attempt < RETRY_TIMES
    /\ LET step == CASE vendor = "shumei" ->
                            shumei_attempt(call_result, kind, level, text)
                     [] vendor = "yidun" ->
                            yidun_attempt(call_result, kind, level, text)
                     [] vendor = "juntong" ->
                            juntong_attempt(call_result, kind, level, text)
                     [] vendor = "huoshan" ->
                            huoshan_attempt(call_result, kind, level, text)
       IN /\ call_result' = step.result
          /\ call_pc' = IF step.break THEN "return"
                        ELSE IF attempt < RETRY_TIMES - 1 THEN "backoff"
                        ELSE "return"
    /\ attempt' = attempt + 1
    /\ attempt_log' = Append(attempt_log, kind)
    /\ UNCHANGED <<driver_vars, collector, feed_vars, plan, outer_vars, run_vars,
                   comparison_vars, vendor, sleeps>>

BackoffWithoutSleeping ==
    /\ call_pc = "backoff"
    /\ call_pc' = "attempt"
    /\ UNCHANGED <<driver_vars, collector, feed_vars, plan, outer_vars, run_vars,
                   comparison_vars, vendor, attempt, call_result, attempt_log, sleeps>>

\* time.sleep(1) before the next attempt.
Backoff ==
    /\ call_pc = "backoff"
    /\ call_pc' = "attempt"
    /\ sleeps' = sleeps + 1
    /\ UNCHANGED <<driver_vars, collector, feed_vars, plan, outer_vars, run_vars,
                   comparison_vars, vendor, attempt, call_result, attempt_log>>

\* return result
CallReturn ==
    /\ call_pc = "return"
    /\ call_pc' = "returned"
    /\ UNCHANGED <<driver_vars, collector, feed_vars, plan, outer_vars, run_vars,
                   comparison_vars, vendor, attempt, call_result, attempt_log, sleeps>>

NextCall ==
    \/ \E kind \in AttemptKinds : \E level \in RiskLevel :
          \E text \in {Err_Network, Err_Unexpected} : Attempt(kind, level, text)
    \/ Backoff
    \/ CallReturn

CallSpec == InitCall /\ [][NextCall]_vars

\* ------------------------------------------------------------------ BenchmarkRunner.run
\* An Optional[List[TestCase]]: <<>> is None, <<l>> is the list l.
NoList == <<>>
SomeList(l) == <<l>>

\* Python's "not x" for an Optional[List]: None and the empty list are falsy.
IsFalsy(cases) == cases = NoList \/ cases[1] = <<>>

\* The first n cases of a corpus whose labels alternate.
RunCases(n) ==
    [i \in 1..n |-> [id |-> i,
                     expected_risk |-> IF i % 2 = 1 THEN NoRiskLabel ELSE SheZheng,
                     category |-> IF i % 2 = 1 THEN <<>> ELSE <<"p">>]]

OptionalLists == {NoList} \cup {SomeList(RunCases(n)) : n \in 0..MaxRunCases}

\* What a data file holds: text rows only, or image rows only.
DataFiles ==
    {[text_cases |-> RunCases(MaxRunCases), image_cases |-> RunCases(0)],
     [text_cases |-> RunCases(0), image_cases |-> RunCases(MaxRunCases)]}

\* The arguments of run(); limit 0 stands for None (both are falsy); data_file
\* is <<>> for None and << what the file holds >> otherwise.
RunArguments ==
    [data_file : {<<>>} \cup {<<f>> : f \in DataFiles},
     text_cases : OptionalLists,
     image_cases : OptionalLists,
     limit : {0, 1},
     test_text : BOOLEAN,
     test_image : BOOLEAN]

\* BenchmarkResult(provider=...): no metrics, empty mismatch lists.
NewBenchmarkResult(provider) ==
    [provider |-> provider,
     text_metrics |-> <<>>,
     image_metrics |-> <<>>,
     text_mismatches |-> <<>>,
     image_mismatches |-> <<>>]

\* cases[:limit]
Take(cases, limit) ==
    SubSeq(cases, 1, IF limit < Len(cases) THEN limit ELSE Len(cases))

\* DataLoader.load_text_cases / load_image_cases(limit=limit)
Load(cases, limit) == IF limit > 0 THEN Take(cases, limit) ELSE cases

\* What the adapter calls of a run() do: a verdict, or a failed outcome.
RunOutcomes ==
    {Returned(ModerationResult(TRUE, None, "REVIEW", SheZheng, 1)),
     Returned(ModerationResult(FALSE, Err_API, "PASS", NoRiskLabel, 1))}

\* A call of run() on one provider has built its BenchmarkResult.
InitRun ==
    /\ NoRun
    /\ NoFeed
    /\ NoPlan
    /\ NoOuter
    /\ NoCall
    /\ collector = NewCollector
    /\ run_pc = "load"
    /\ run_args \in RunArguments
    /\ bench_result = NewBenchmarkResult("shumei")
    /\ cmp_pc = "idle"
    /\ providers = <<>>
    /\ corpus = <<>>
    /\ provider_index = 0
    /\ comparison_results = <<>>
    /\ received = << [text_cases |-> run_args.text_cases,
                      image_cases |-> run_args.image_cases] >>

\* "Load test data if file provided" and "Apply limit".
RunLoad ==
    /\ run_pc = "load"
    /\ LET a == run_args
           loaded_text ==
               IF a.data_file # <<>> /\ a.test_text /\ IsFalsy(a.text_cases)
               THEN SomeList(Load(a.data_file[1].text_cases, a.limit))
               ELSE a.text_cases
           loaded_image ==
               IF a.data_file # <<>> /\ a.test_image /\ IsFalsy(a.image_cases)
               THEN SomeList(Load(a.data_file[1].image_cases, a.limit))
               ELSE a.image_cases
           limited(cases) ==
               IF a.limit > 0 /\ ~IsFalsy(cases)
               THEN SomeList(Take(cases[1], a.limit))
               ELSE cases
       IN run_args' = [a EXCEPT !.text_cases = limited(loaded_text),
                                !.image_cases = limited(loaded_image)]
    /\ run_pc' = "text"
    /\ UNCHANGED <<driver_vars, collector, feed_vars, plan, outer_vars, call_vars,
                   bench_result, comparison_vars>>

ContentKinds == {"text", "image"}
CasesOf(kind) == IF kind = "text" THEN run_args.text_cases ELSE run_args.image_cases
\* "if test_text and text_cases", "if test_image and image_cases"
Wanted(kind) ==
    /\ IF kind = "text" THEN run_args.test_text ELSE run_args.test_image
    /\ ~IsFalsy(CasesOf(kind))
RunningKind(kind) == IF kind = "text" THEN "text_running" ELSE "image_running"
AfterKind(kind) == IF kind = "text" THEN "image" ELSE "export"

\* self._run_benchmark(cases, kind) is entered: the collector is created and
\* started, the executor is created.
RunKindStart(kind) ==
    /\ run_pc = kind
    /\ Wanted(kind)
    /\ run_pc' = RunningKind(kind)
    /\ test_cases' = CasesOf(kind)[1]
    /\ content_type' = kind
    /\ max_workers' = MaxWorkers
    /\ on_result' = FALSE
    /\ on_progress' = FALSE
    /\ pc' = "submit"
    /\ submitted' = 0
    /\ futures' = [i \in 1..Len(test_cases') |-> [state |-> "none", outcome |-> NoOutcome]]
    /\ yielded' = {}
    /\ calls' = [i \in 1..Len(test_cases') |-> NoCalls]
    /\ collector' = [NewCollector EXCEPT !.started = TRUE]
    /\ record_case' = <<>>
    /\ mismatches' = <<>>
    /\ completed' = 0
    /\ result_calls' = <<>>
    /\ progress_calls' = <<>>
    /\ returned' = <<>>
    /\ UNCHANGED <<feed_vars, plan, outer_vars, call_vars, run_args, bench_result, comparison_vars>>

RunKindSkipWithEmptyMetrics(kind) ==
    /\ run_pc = kind
    /\ ~Wanted(kind)
    /\ run_pc' = AfterKind(kind)
    /\ bench_result' = IF kind = "text"
                       THEN [bench_result EXCEPT !.text_metrics = <<calculate(NewCollector)>>]
                       ELSE [bench_result EXCEPT !.image_metrics = <<calculate(NewCollector)>>]
    /\ UNCHANGED <<driver_vars, collector, feed_vars, plan, outer_vars, call_vars, run_args,
                   comparison_vars>>

\* The condition of "if test_text and text_cases" (or of the image branch) is
\* false: _run_benchmark is not called.
RunKindSkip(kind) ==
    /\ run_pc = kind
    /\ ~Wanted(kind)
    /\ run_pc' = AfterKind(kind)
    /\ UNCHANGED <<driver_vars, collector, feed_vars, plan, outer_vars, call_vars, run_args,
                   bench_result, comparison_vars>>

\* _run_benchmark has returned: its pair is stored in the result.
RunKindDone(kind) ==
    /\ run_pc = RunningKind(kind)
    /\ pc = "done"
    /\ bench_result' =
          IF kind = "text"
          THEN [bench_result EXCEPT !.text_metrics = <<returned[1].metrics>>,
                                    !.text_mismatches = returned[1].mismatches]
          ELSE [bench_result EXCEPT !.image_metrics = <<returned[1].metrics>>,
                                    !.image_mismatches = returned[1].mismatches]
    /\ run_pc' = AfterKind(kind)
    /\ test_cases' = <<>>
    /\ content_type' = "text"
    /\ max_workers' = 1
    /\ on_result' = FALSE
    /\ on_progress' = FALSE
    /\ pc' = "idle"
    /\ submitted' = 0
    /\ futures' = <<>>
    /\ yielded' = {}
    /\ calls' = <<>>
    /\ collector' = NewCollector
    /\ record_case' = <<>>
    /\ mismatches' = <<>>
    /\ completed' = 0
    /\ result_calls' = <<>>
    /\ progress_calls' = <<>>
    /\ returned' = <<>>
    /\ UNCHANGED <<feed_vars, plan, outer_vars, call_vars, run_args, comparison_vars>>

\* self._export_mismatches(result); return result.  Writing the CSV files is
\* taken to succeed.
RunExport ==
    /\ run_pc = "export"
    /\ run_pc' = "returned"
    /\ UNCHANGED <<driver_vars, collector, feed_vars, plan, outer_vars, call_vars, run_args,
                   bench_result, comparison_vars>>

NextRun ==
    \/ RunLoad
    \/ \E kind \in ContentKinds : RunKindStart(kind)
    \/ \E kind \in ContentKinds : RunKindSkip(kind)
    \/ \E kind \in ContentKinds : RunKindDone(kind)
    \/ RunExport
    \/ Submit
    \/ Sleep
    \/ \E i \in 1..N : WorkerStart(i)
    \/ \E i \in 1..N : \E outcome \in RunOutcomes : WorkerFinish(i, outcome)
    \/ \E i \in 1..N : Drain(i, FALSE)
    \/ Return

RunSpec == InitRun /\ [][NextRun]_vars

\* ------------------------------------------------------------------ MultiProviderRunner
\* provider.name of the providers that can be added.
ProviderNames == {"shumei", "yidun"}

\* What the calls of each provider's adapter do in a comparison.
ProviderOutcome(name) ==
    IF name = "shumei"
    THEN Returned(ModerationResult(TRUE, None, "REVIEW", SheZheng, 1))
    ELSE Returned(ModerationResult(FALSE, Err_API, "PASS", NoRiskLabel, 1))

\* What run_comparison has after "Load data once": a list for a kind that is
\* tested, None for one that is not.
Corpora ==
    {c \in [text_cases : OptionalLists, image_cases : OptionalLists,
            test_text : BOOLEAN, test_image : BOOLEAN] :
        /\ c.test_text <=> c.text_cases # NoList
        /\ c.test_image <=> c.image_cases # NoList}

\* A fresh MultiProviderRunner after its add_provider calls; run_comparison
\* has loaded the data and is about to loop over the providers.
InitComparison ==
    /\ NoRun
    /\ NoFeed
    /\ NoPlan
    /\ NoOuter
    /\ NoCall
    /\ NoBenchmark
    /\ collector = NewCollector
    /\ cmp_pc = "loop"
    /\ providers \in UNION {[1..n -> ProviderNames] : n \in 1..MaxProviders}
    /\ corpus \in Corpora
    /\ provider_index = 1
    /\ comparison_results = <<>>
    /\ received = <<>>

\* The loop body up to the call: runner = BenchmarkRunner(provider);
\* runner.run(text_cases=..., image_cases=..., test_text=..., test_image=...)
\* is entered and builds its BenchmarkResult.
ComparisonRun ==
    /\ cmp_pc = "loop"
    /\ run_pc = "idle"
    /\ provider_index <= Len(providers)
    /\ run_args' = [data_file |-> <<>>,
                    text_cases |-> corpus.text_cases,
                    image_cases |-> corpus.image_cases,
                    limit |-> 0,
                    test_text |-> corpus.test_text,
                    test_image |-> corpus.test_image]
    /\ bench_result' = NewBenchmarkResult(providers[provider_index])
    /\ run_pc' = "load"
    /\ received' = Append(received, [text_cases |-> run_args'.text_cases,
                                     image_cases |-> run_args'.image_cases])
    /\ UNCHANGED <<driver_vars, collector, feed_vars, plan, outer_vars, call_vars,
                   cmp_pc, providers, corpus, provider_index, comparison_results>>

ComparisonStoreUnderOneKey ==
    /\ cmp_pc = "loop"
    /\ run_pc = "returned"
    /\ comparison_results' =
          [name \in DOMAIN comparison_results \cup {"shumei"} |->
              IF name = "shumei" THEN bench_result ELSE comparison_results[name]]
    /\ provider_index' = provider_index + 1
    /\ run_pc' = "idle"
    /\ run_args' = <<>>
    /\ bench_result' = <<>>
    /\ UNCHANGED <<driver_vars, collector, feed_vars, plan, outer_vars, call_vars,
                   cmp_pc, providers, corpus, received>>

\* run() has returned: self.results[provider.name] = result, and the loop
\* moves to the next provider.
ComparisonStore ==
    /\ cmp_pc = "loop"
    /\ run_pc = "returned"
    /\ comparison_results' =
          [name \in DOMAIN comparison_results \cup {bench_result.provider} |->
              IF name = bench_result.provider THEN bench_result
              ELSE comparison_results[name]]
    /\ provider_index' = provider_index + 1
    /\ run_pc' = "idle"
    /\ run_args' = <<>>
    /\ bench_result' = <<>>
    /\ UNCHANGED <<driver_vars, collector, feed_vars, plan, outer_vars, call_vars,
                   cmp_pc, providers, corpus, received>>

\* The loop is over: return self.results.
ComparisonReturn ==
    /\ cmp_pc = "loop"
    /\ run_pc = "idle"
    /\ provider_index > Len(providers)
    /\ cmp_pc' = "returned"
    /\ UNCHANGED <<driver_vars, collector, feed_vars, plan, outer_vars, call_vars, run_vars,
                   providers, corpus, provider_index, comparison_results, received>>

\* What the adapter calls of the provider being benchmarked do.
CurrentOutcomes ==
    IF provider_index \in 1..Len(providers)
    THEN {ProviderOutcome(providers[provider_index])}
    ELSE {}

NextComparison ==
    \/ ComparisonRun
    \/ ComparisonStore
    \/ ComparisonReturn
    \/ RunLoad
    \/ \E kind \in ContentKinds : RunKindStart(kind)
    \/ \E kind \in ContentKinds : RunKindSkip(kind)
    \/ \E kind \in ContentKinds : RunKindDone(kind)
    \/ RunExport
    \/ Submit
    \/ Sleep
    \/ \E i \in 1..N : WorkerStart(i)
    \/ \E i \in 1..N : \E outcome \in CurrentOutcomes : WorkerFinish(i, outcome)
    \/ \E i \in 1..N : Drain(i, FALSE)
    \/ Return

ComparisonSpec == InitComparison /\ [][NextComparison]_vars

\* ------------------------------------------------------------------ calculate() on a collector
\* the most calls of calculate() on one collector
MaxCalculations == 2

after_calculate_sorting_in_place(c) == [c EXCEPT !.response_times = sorted(@)]

\* The collector after calculate(): the method reads the counters and the
\* lists (sorted() and dict() build new objects, the category lists are only
\* iterated) and assigns to no attribute of self.
after_calculate(c) == c

\* metrics = collector.calculate(), on a collector that has so many records.
Calculate ==
    /\ pc = "idle"
    /\ Len(calculated) < MaxCalculations
    /\ calculated' = Append(calculated, [records |-> Len(collector.results),
                                         metrics |-> calculate(collector)])
    /\ collector' = after_calculate(collector)
    /\ UNCHANGED <<driver_vars, feed_vars, plan, export_vars, sched_vars,
                   call_vars, run_vars, comparison_vars>>

NextCalc ==
    \/ \E x \in FeedInputs : RecordCall(x.result, x.expected_risk, x.category)
    \/ Calculate

CalcSpec == InitCollector /\ [][NextCalc]_vars

\* ------------------------------------------------------------------ the mismatch export
\* the longest mismatch list handed to _write_mismatch_csv
MaxMismatches == 3

DigitChars == <<"0", "1", "2", "3", "4", "5", "6", "7", "8", "9">>

\* The decimal digits of a natural number.
RECURSIVE Digits(_)
Digits(n) ==
    IF n < 10 THEN <<DigitChars[n + 1]>>
    ELSE Append(Digits(n \div 10), DigitChars[(n % 10) + 1])

\* f"{x:.0f}"; the latencies of the model are whole milliseconds.
format_0f(x) == Digits(x)

\* MismatchRecord with the fields that only the export reads.
MismatchRecord(m, content, risk_description, raw_response) ==
    [case_id |-> m.case_id,
     content |-> content,
     content_type |-> m.content_type,
     expected_risk |-> m.expected_risk,
     actual_risk_level |-> m.actual_risk_level,
     actual_risk_label |-> m.actual_risk_label,
     risk_description |-> risk_description,
     response_time_ms |-> m.response_time_ms,
     raw_response |-> raw_response]

\* The mismatch records of a run: a no-risk case answered REVIEW or REJECT, a
\* risk case answered PASS, with texts that hold a comma and a line break.
ExportRecords ==
    {MismatchRecord(
        _check_mismatch([id |-> 1, expected_risk |-> NoRiskLabel],
                        ModerationResult(TRUE, None, "REVIEW", SheZheng, 7), "text")[1],
        <<"a", ",", "b">>, <<>>, <<"{", "}">>),
     MismatchRecord(
        _check_mismatch([id |-> 2, expected_risk |-> SheZheng],
                        ModerationResult(TRUE, None, "PASS", NoRiskLabel, 120), "text")[1],
        <<"a", "\n", "b">>, <<"d">>, <<>>),
     MismatchRecord(
        _check_mismatch([id |-> 3, expected_risk |-> NoRiskLabel],
                        ModerationResult(TRUE, None, "REJECT", NoRiskLabel, 0), "image")[1],
        <<"u">>, <<>>, <<>>),
     MismatchRecord(
        _check_mismatch([id |-> 3, expected_risk |-> NoRiskLabel],
                        ModerationResult(TRUE, None, "REJECT", SheZheng, 1005), "image")[1],
        <<"u">>, <<>>, <<>>)}

\* headers
headers ==
    <<"case_id", "content", "content_type", "expected_risk", "actual_risk_level",
      "actual_risk_label", "risk_description", "response_time_ms", "raw_response">>

\* The list given to writer.writerow for record m.
csv_row(m) ==
    <<m.case_id, m.content, m.content_type, m.expected_risk, m.actual_risk_level,
      m.actual_risk_label, m.risk_description, format_0f(m.response_time_ms),
      m.raw_response>>

\* _export_mismatches has called _write_mismatch_csv with a non-empty list.
InitExport ==
    /\ NoRun
    /\ collector = NewCollector
    /\ NoFeed
    /\ NoPlan
    /\ NoCall
    /\ NoBenchmark
    /\ NoComparison
    /\ NoCalculation
    /\ NoSchedule
    /\ export_pc = "open"
    /\ export_list \in UNION {[1..n -> ExportRecords] : n \in 1..MaxMismatches}
    /\ csv_file = <<>>

\* open(filepath, "w"); writer.writerow(headers)
WriteHeader ==
    /\ export_pc = "open"
    /\ csv_file' = <<headers>>
    /\ export_pc' = "rows"
    /\ UNCHANGED <<driver_vars, collector, feed_vars, plan, calculated, export_list,
                   sched_vars, call_vars, run_vars, comparison_vars>>

WriteRowFromTheEnd ==
    /\ export_pc = "rows"
    /\ Len(csv_file) - 1 < Len(export_list)
    /\ csv_file' = Append(csv_file, csv_row(export_list[Len(export_list) + 1 - Len(csv_file)]))
    /\ UNCHANGED <<driver_vars, collector, feed_vars, plan, calculated, export_pc,
                   export_list, sched_vars, call_vars, run_vars, comparison_vars>>

\* One iteration of "for m in mismatches": writer.writerow([...]).
WriteRow ==
    /\ export_pc = "rows"
    /\ Len(csv_file) - 1 < Len(export_list)
    /\ csv_file' = Append(csv_file, csv_row(export_list[Len(csv_file)]))
    /\ UNCHANGED <<driver_vars, collector, feed_vars, plan, calculated, export_pc,
                   export_list, sched_vars, call_vars, run_vars, comparison_vars>>

\* The loop is over and the with block closes the file.
CloseFile ==
    /\ export_pc = "rows"
    /\ Len(csv_file) - 1 = Len(export_list)
    /\ export_pc' = "closed"
    /\ UNCHANGED <<driver_vars, collector, feed_vars, plan, calculated, export_list,
                   csv_file, sched_vars, call_vars, run_vars, comparison_vars>>

NextExport == WriteHeader \/ WriteRow \/ CloseFile

ExportSpec == InitExport /\ [][NextExport]_vars

\* ------------------------------------------------------------------ a collector fed labelled outcomes
\* the longest list of outcomes whose labels are compared
MaxMatchRecords == 2

\* Labels of the corpus and of the vendors: a label that holds another one
\* ("she zheng min gan"), one that holds the no-risk label ("fei zheng
\* chang"), an unrelated one ("se qing"), and the empty text of an empty cell.
SheZhengMinGan == <<"she", "zheng", "min", "gan">>
FeiZhengChang == <<"fei", "zheng", "chang">>
SeQing == <<"se", "qing">>

\* A successful outcome with the label actual (PASS exactly with the no-risk
\* label) for a case labelled expected in the given category.
MatchInput(expected, actual, category) ==
    [result |-> ModerationResult(TRUE, None,
                                 IF actual = NoRiskLabel THEN "PASS" ELSE "REJECT",
                                 actual, 1),
     expected_risk |-> expected,
     category |-> category]

\* The (expected, actual) pairs fed to record(), and two failed outcomes.
MatchInputs ==
    {MatchInput(NoRiskLabel, NoRiskLabel, <<"p">>),
     MatchInput(SheZheng, SheZheng, <<"p">>),
     MatchInput(SheZheng, SheZhengMinGan, <<"p">>),
     MatchInput(SheZhengMinGan, SheZheng, <<"p">>),
     MatchInput(SheZheng, SeQing, <<"p">>),
     MatchInput(SheZheng, NoRiskLabel, <<"p">>),
     MatchInput(NoRiskLabel, SheZheng, <<"p">>),
     MatchInput(FeiZhengChang, NoRiskLabel, <<"p">>),
     MatchInput(NoRiskLabel, FeiZhengChang, <<"p">>),
     MatchInput(<<>>, SeQing, <<"p">>),
     MatchInput(<<>>, NoRiskLabel, <<"p">>),
     MatchInput(SheZheng, SheZhengMinGan, <<>>),
     [result |-> ModerationResult(FALSE, Err_API, "PASS", NoRiskLabel, 1),
      expected_risk |-> NoRiskLabel, category |-> <<"p">>],
     [result |-> ModerationResult(FALSE, Err_Timeout, "PASS", NoRiskLabel, 1),
      expected_risk |-> SheZheng, category |-> <<"p">>]}

\* A fresh collector and the list of outcomes it is going to record.
InitMatch ==
    /\ NoRun
    /\ collector = NewCollector
    /\ permuted = NewCollector
    /\ inputs \in UNION {[1..n -> MatchInputs] : n \in 1..MaxMatchRecords}
    /\ order = [i \in 1..Len(inputs) |-> i]
    /\ NoPlan
    /\ NoOuter
    /\ NoCall
    /\ NoBenchmark
    /\ NoComparison

NextMatch == FeedInOrder

MatchSpec == InitMatch /\ [][NextMatch]_vars

\* ------------------------------------------------------------------ the scheduled benchmark
\* The largest duration_hours and interval_hours tried.
MaxHours == 3

\* The clock ticks of datetime.now() in one hour.
TicksPerHour == 2

\* timedelta(hours=h), in ticks
timedelta(h) == h * TicksPerHour

\* The running times of a round, in ticks: none to speak of, half an hour,
\* an hour and a half, three hours and a half.
RoundTicks == {0, 1, 3, 7}

\* The entry _run_single_round returns for a round.
round_result(n, timestamp) == [round |-> n, timestamp |-> timestamp, error |-> <<>>]

\* The entry the except branch of run() appends for a round.
round_error(n, timestamp) == [round |-> n, timestamp |-> timestamp, error |-> <<Exc_Boom>>]

\* ScheduledBenchmark(provider_name, data_file, text_limit, image_limit,
\* duration_hours, interval_hours), run() not yet called.
InitSchedule ==
    /\ NoRun
    /\ collector = NewCollector
    /\ NoFeed
    /\ NoPlan
    /\ NoCall
    /\ NoBenchmark
    /\ NoComparison
    /\ NoCalculation
    /\ NoExport
    /\ duration_hours \in 1..MaxHours
    /\ interval_hours \in 1..MaxHours
    /\ total_rounds = duration_hours \div interval_hours
    /\ round_results = <<>>
    /\ sched_pc = "constructed"
    /\ now = 0
    /\ end_time = 0
    /\ round_num = 0
    /\ round_start = 0

\* run(): start_time = datetime.now(); end_time = start_time + duration;
\* round_num = 0
StartRun ==
    /\ sched_pc = "constructed"
    /\ end_time' = now + timedelta(duration_hours)
    /\ round_num' = 0
    /\ sched_pc' = "while"
    /\ UNCHANGED <<driver_vars, collector, feed_vars, plan, calculated, export_vars,
                   duration_hours, interval_hours, total_rounds, round_results,
                   now, round_start, call_vars, run_vars, comparison_vars>>

\* while datetime.now() < end_time: round_num += 1; round_start = now
EnterRound ==
    /\ sched_pc = "while"
    /\ now < end_time
    /\ round_num' = round_num + 1
    /\ round_start' = now
    /\ sched_pc' = "round"
    /\ UNCHANGED <<driver_vars, collector, feed_vars, plan, calculated, export_vars,
                   duration_hours, interval_hours, total_rounds, round_results,
                   now, end_time, call_vars, run_vars, comparison_vars>>

\* while datetime.now() < end_time, the test failing: the loop is left.
LeaveLoop ==
    /\ sched_pc = "while"
    /\ ~(now < end_time)
    /\ sched_pc' = "report"
    /\ UNCHANGED <<driver_vars, collector, feed_vars, plan, calculated, export_vars,
                   duration_hours, interval_hours, total_rounds, round_results,
                   now, end_time, round_num, round_start, call_vars, run_vars,
                   comparison_vars>>

\* The try block running to its end in `ticks` ticks: the round's entry is
\* appended and the intermediate results are saved.
RoundCompletes(ticks) ==
    /\ sched_pc = "round"
    /\ round_results' = Append(round_results, round_result(round_num, round_start))
    /\ now' = now + ticks
    /\ sched_pc' = "next"
    /\ UNCHANGED <<driver_vars, collector, feed_vars, plan, calculated, export_vars,
                   duration_hours, interval_hours, total_rounds, end_time,
                   round_num, round_start, call_vars, run_vars, comparison_vars>>

\* _run_single_round raising after `ticks` ticks: the except branch appends
\* an error entry.
RoundRaises(ticks) ==
    /\ sched_pc = "round"
    /\ round_results' = Append(round_results, round_error(round_num, round_start))
    /\ now' = now + ticks
    /\ sched_pc' = "next"
    /\ UNCHANGED <<driver_vars, collector, feed_vars, plan, calculated, export_vars,
                   duration_hours, interval_hours, total_rounds, end_time,
                   round_num, round_start, call_vars, run_vars, comparison_vars>>

\* _save_intermediate_results raising after the round's entry was appended:
\* the except branch appends an error entry as well.
SaveRaises(ticks) ==
    /\ sched_pc = "round"
    /\ round_results' = Append(Append(round_results,
                                      round_result(round_num, round_start)),
                               round_error(round_num, round_start))
    /\ now' = now + ticks
    /\ sched_pc' = "next"
    /\ UNCHANGED <<driver_vars, collector, feed_vars, plan, calculated, export_vars,
                   duration_hours, interval_hours, total_rounds, end_time,
                   round_num, round_start, call_vars, run_vars, comparison_vars>>

\* next_round_time = round_start + timedelta(hours=interval_hours)
next_round_time == round_start + timedelta(interval_hours)

\* if next_round_time >= end_time: break
Break ==
    /\ sched_pc = "next"
    /\ next_round_time >= end_time
    /\ sched_pc' = "report"
    /\ UNCHANGED <<driver_vars, collector, feed_vars, plan, calculated, export_vars,
                   duration_hours, interval_hours, total_rounds, round_results,
                   now, end_time, round_num, round_start, call_vars, run_vars,
                   comparison_vars>>

\* wait_seconds = next_round_time - now; if wait_seconds > 0: sleep
Wait ==
    /\ sched_pc = "next"
    /\ ~(next_round_time >= end_time)
    /\ now' = IF next_round_time - now > 0 THEN next_round_time ELSE now
    /\ sched_pc' = "while"
    /\ UNCHANGED <<driver_vars, collector, feed_vars, plan, calculated, export_vars,
                   duration_hours, interval_hours, total_rounds, round_results,
                   end_time, round_num, round_start, call_vars, run_vars,
                   comparison_vars>>

\* _generate_summary_report(); run() returns
Report ==
    /\ sched_pc = "report"
    /\ sched_pc' = "done"
    /\ UNCHANGED <<driver_vars, collector, feed_vars, plan, calculated, export_vars,
                   duration_hours, interval_hours, total_rounds, round_results,
                   now, end_time, round_num, round_start, call_vars, run_vars,
                   comparison_vars>>

NextSched ==
    \/ StartRun
    \/ EnterRound
    \/ LeaveLoop
    \/ \E ticks \in RoundTicks : RoundCompletes(ticks)
    \/ \E ticks \in RoundTicks : RoundRaises(ticks)
    \/ \E ticks \in RoundTicks : SaveRaises(ticks)
    \/ Break
    \/ Wait
    \/ Report

SchedSpec == InitSchedule /\ [][NextSched]_vars

\* ------------------------------------------------------------------ properties
Done == pc = "done"
Metrics == returned[1].metrics

\* The entries of collector.results recorded for case i.
RecordsOf(i) == {k \in 1..Len(record_case) : record_case[k] = i}
\* The mismatch records made for case i.
MismatchesOf(i) == {k \in 1..Len(mismatches) : mismatches[k].case_id = i}
\* The adapter calls made for case i.
CallsOf(i) == calls[i].moderate_text + calls[i].moderate_image

\* C1: a finished run returns metrics with total_requests = len(cases) and
\* success_count + fail_count = total_requests, whatever each adapter call and
\* the on_result callback do.
C1_TotalIsNumberOfCases ==
    Done => /\ Metrics.total_requests = N
            /\ Metrics.success_count + Metrics.fail_count = Metrics.total_requests

\* C2: an adapter call that raises gives exactly one recorded outcome for its
\* case, failed and carrying the exception text; the run goes on: no exception
\* leaves the loop, every case is dispatched and recorded; and when every call
\* raised, success_count = 0 and fail_count = len(cases).
C2_RaiseIsOneFailedOutcome ==
    /\ pc \in {"submit", "sleep", "collect", "done"}
    /\ \A i \in yielded :
          futures[i].outcome.kind = "raise" =>
              /\ Cardinality(RecordsOf(i)) = 1
              /\ \A k \in RecordsOf(i) :
                    /\ collector.results[k].success = FALSE
                    /\ collector.results[k].error = futures[i].outcome.text
    /\ Done => /\ \A i \in 1..N : CallsOf(i) = 1 /\ RecordsOf(i) # {}
               /\ (\A i \in 1..N : futures[i].outcome.kind = "raise")
                     => Metrics.success_count = 0 /\ Metrics.fail_count = N

\* A finished batch of two in which one call raised and the other succeeded.
C2_Witness ==
    /\ Done
    /\ N = 2
    /\ futures[1].outcome.kind = "raise"
    /\ futures[2].outcome.kind = "return" /\ futures[2].outcome.value.success

\* C3: in a finished run every case had exactly one adapter call, through the
\* method of the run's content type, and appears in exactly one recorded
\* outcome.
C3_EachCaseExactlyOnce ==
    Done => \A i \in 1..N :
               /\ calls[i] = (IF content_type = "text"
                              THEN [moderate_text |-> 1, moderate_image |-> 0]
                              ELSE [moderate_text |-> 0, moderate_image |-> 1])
               /\ Cardinality(RecordsOf(i)) = 1

\* C4: a case has a mismatch record (and then exactly one) if and only if its
\* call returned a successful outcome whose (risk level != PASS) differs from
\* (expected label != no-risk label); cases not yet collected have none.
C4_MismatchIffBinaryDisagreement ==
    \A i \in 1..N :
        LET o == futures[i].outcome
            disagrees == /\ o.kind = "return"
                         /\ o.value.success
                         /\ (test_cases[i].expected_risk # NoRiskLabel)
                               # (o.value.risk_level # "PASS")
        IN Cardinality(MismatchesOf(i)) =
               (IF i \in yielded /\ disagrees THEN 1 ELSE 0)

\* A collected no-risk case answered REJECT with the no-risk label text has a
\* mismatch, and a collected failed call has none.
C4_Witness ==
    /\ N = 2
    /\ yielded = {1, 2}
    /\ test_cases[1].expected_risk = NoRiskLabel
    /\ futures[1].outcome = Returned(ModerationResult(TRUE, None, "REJECT", NoRiskLabel, 2))
    /\ MismatchesOf(1) # {}
    /\ futures[2].outcome.kind = "return" /\ ~futures[2].outcome.value.success
    /\ MismatchesOf(2) = {}

ConfusionCells(c) ==
    c.true_positive + c.true_negative + c.false_positive + c.false_negative

\* C5: the four confusion-matrix cells sum to success_count.
C5_CellsSumToSuccessCount ==
    ConfusionCells(collector) = collector.success_count

\* C6: a record() of a successful outcome increments exactly the cell chosen by
\* (expected label != no-risk label, risk level != PASS) and no other cell.
C6_CellChosenByRiskLevel ==
    [][(/\ Len(collector'.results) = Len(collector.results) + 1
        /\ collector'.results[Len(collector'.results)].success)
       => LET r == collector'.results[Len(collector'.results)]
              e == r.expected # NoRiskLabel
              a == r.risk_level # "PASS"
              inc(x) == IF x THEN 1 ELSE 0
          IN /\ collector'.true_positive = collector.true_positive + inc(e /\ a)
             /\ collector'.true_negative = collector.true_negative + inc(~e /\ ~a)
             /\ collector'.false_positive = collector.false_positive + inc(~e /\ a)
             /\ collector'.false_negative = collector.false_negative + inc(e /\ ~a)
      ]_vars

\* C7: success_count + fail_count is the number of recorded outcomes, which is
\* the total_requests calculate() reports.
C7_SuccessPlusFailIsTotal ==
    /\ collector.success_count + collector.fail_count = Len(collector.results)
    /\ calculate(collector).total_requests = Len(collector.results)
    /\ calculate(collector).success_count + calculate(collector).fail_count
          = calculate(collector).total_requests

\* A collector that recorded a success, a failure without text and a timeout.
C7_Witness ==
    /\ collector.success_count = 1
    /\ collector.fail_count = 2
    /\ collector.timeout_count = 1
    /\ collector.error_types["Unknown"] = 1

\* C9: the adapter calls in progress never exceed max_workers.
C9_AtMostMaxWorkersInProgress == Cardinality(Running) <= max_workers

\* The pool is full with one worker and a submitted task waits for it.
C9_Witness ==
    /\ max_workers = 1
    /\ Cardinality(Running) = 1
    /\ Pending # {}

\* ------------------------------------------------------------------ scheduling
\* The main thread's next statement.
MainThread ==
    \/ Submit
    \/ Sleep
    \/ \E i \in 1..N : \E cb_raises \in BOOLEAN : Drain(i, cb_raises)
    \/ Return

\* Threads that can run do run, and every adapter call that was entered
\* returns or raises.
FairSpec ==
    /\ Spec
    /\ WF_vars(MainThread)
    /\ \A i \in 1..MaxCases :
          /\ WF_vars(WorkerStart(i))
          /\ WF_vars(\E outcome \in AdapterOutcomes : WorkerFinish(i, outcome))

\* C8: a run ends and returns a result whatever the adapter calls do; when it
\* has returned, every submitted task ran its adapter call and finished; and a
\* submitted task is never withdrawn: a future only moves from pending to
\* running to finished.
C8_RunCompletes ==
    /\ <>Done
    /\ [](Done => /\ returned # <<>>
                  /\ \A i \in 1..N : futures[i].state = "finished" /\ CallsOf(i) = 1)
    /\ [][\A i \in 1..N :
            /\ futures[i].state = "pending"
                  => futures'[i].state \in {"pending", "running"}
            /\ futures[i].state = "running"
                  => futures'[i].state \in {"running", "finished"}
            /\ futures[i].state = "finished" => futures'[i] = futures[i]]_vars

\* A run of two cases has returned although both adapter calls raised.
C8_Witness ==
    /\ Done
    /\ N = 2
    /\ \A i \in 1..N : futures[i].outcome.kind = "raise"
    /\ returned # <<>>
    /\ Metrics.fail_count = 2

\* C10: the collector and the mismatch list change only in a step of the main
\* thread's collection loop; no step of a worker thread (a step that changes a
\* future) changes them.
C10_OnlyTheDrainingThreadRecords ==
    [][(collector' # collector \/ mismatches' # mismatches)
          => (pc = "collect" /\ futures' = futures)]_vars

\* An outcome has been recorded while a worker is still inside an adapter call.
C10_Witness ==
    /\ Len(collector.results) >= 1
    /\ Running # {}


\* C11: when a progress callback is registered, every iteration of the
\* collecting loop calls it exactly once, after the outcome of the case it
\* collected has been recorded; the k-th call carries (k, len(cases)), so the
\* calls are numbered by the order in which the tasks are collected, and at
\* the end of the run there are len(cases) calls.
C11_ProgressNumbering ==
    on_progress =>
        /\ Len(progress_calls) = completed
        /\ completed = Cardinality(yielded)
        /\ \A k \in 1..Len(progress_calls) : progress_calls[k] = <<k, N>>
        /\ \A i \in yielded : RecordsOf(i) # {}
        /\ Done => Len(progress_calls) = N

C11_ProgressStep ==
    on_progress =>
        /\ yielded' # yielded
              => /\ progress_calls' = Append(progress_calls,
                                             <<Cardinality(yielded'), N>>)
                 /\ \A i \in yielded' \ yielded :
                        \E k \in 1..Len(record_case') : record_case'[k] = i
        /\ progress_calls' # progress_calls
              => Cardinality(yielded') = Cardinality(yielded) + 1

C11_ProgressOncePerCompletedTask ==
    [](C11_ProgressNumbering) /\ [][C11_ProgressStep]_vars

\* The case submitted second is collected first and is reported as number 1.
C11_Witness ==
    /\ on_progress
    /\ N = 2
    /\ yielded = {2}
    /\ record_case # <<>>
    /\ progress_calls = << <<1, 2>> >>

\* C12: two fresh collectors that were fed the same triples, one in list order
\* and one in any permuted order, give the same calculate(): counts, confusion
\* matrix, accuracy, precision, recall, F1, error histogram, percentiles.
C12_OrderDoesNotMatter ==
    (Len(collector.results) = Len(inputs) /\ Len(permuted.results) = Len(inputs))
        => calculate(collector) = calculate(permuted)

\* Both collectors are fully fed and hold their latencies in different orders.
C12_Witness ==
    /\ Len(inputs) = MaxRecords
    /\ Len(collector.results) = Len(inputs)
    /\ Len(permuted.results) = Len(inputs)
    /\ collector.response_times # permuted.response_times
    /\ collector.results # permuted.results
    /\ calculate(collector).fail_count = 1
    /\ calculate(collector).p50_response_time > calculate(collector).min_response_time

\* The element at 0-based position index of the ascending order of the
\* latencies times: fewer than index + 1 of them are below it and at least
\* index + 1 are not above it.
IsOrderStatistic(v, times, index) ==
    /\ \E k \in 1..Len(times) : times[k] = v
    /\ Cardinality({k \in 1..Len(times) : times[k] < v}) <= index
    /\ Cardinality({k \in 1..Len(times) : times[k] <= v}) > index

PercentileIndex(n, P) ==
    IF (n * P) \div 100 < n - 1 THEN (n * P) \div 100 ELSE n - 1

\* C16: with n >= 1 success latencies calculate() reports, for P = 50, 95, 99,
\* the element at index min(floor(n * P / 100), n - 1) of the ascending
\* latencies; latencies 10, 20, ..., 100 give p50 = 60; with no latencies the
\* three percentiles are 0.
C16_PercentileRule ==
    LET times == collector.response_times
        n == Len(times)
        m == calculate(collector)
    IN /\ n >= 1 =>
            /\ IsOrderStatistic(m.p50_response_time, times, PercentileIndex(n, 50))
            /\ IsOrderStatistic(m.p95_response_time, times, PercentileIndex(n, 95))
            /\ IsOrderStatistic(m.p99_response_time, times, PercentileIndex(n, 99))
       /\ times = [k \in 1..10 |-> 10 * k] => m.p50_response_time = 60
       /\ n = 0 => /\ m.p50_response_time = 0
                   /\ m.p95_response_time = 0
                   /\ m.p99_response_time = 0

\* Ten successes with latencies 10, 20, ..., 100 have been recorded.
C16_Witness ==
    /\ BatchFed
    /\ collector.response_times = [k \in 1..10 |-> 10 * k]
    /\ calculate(collector).p50_response_time = 60

\* C17: with at least one successful outcome recorded,
\* min_response_time <= p50 <= p95 <= p99 <= max_response_time.
C17_PercentilesAreOrdered ==
    LET m == calculate(collector)
    IN collector.success_count >= 1 =>
        /\ m.min_response_time <= m.p50_response_time
        /\ m.p50_response_time <= m.p95_response_time
        /\ m.p95_response_time <= m.p99_response_time
        /\ m.p99_response_time <= m.max_response_time

\* Latencies that arrived out of order, with the median strictly inside.
C17_Witness ==
    LET m == calculate(collector)
    IN /\ BatchFed
       /\ plan.latency = "zigzag"
       /\ m.min_response_time < m.p50_response_time
       /\ m.p50_response_time < m.p95_response_time
       /\ m.p95_response_time < m.p99_response_time
       /\ m.p99_response_time <= m.max_response_time

\* The fraction r is count / denominator * 100.
IsPercentageOf(r, count, denominator) ==
    r.num * denominator = 100 * count * r.den

\* The fraction r lies in [0, 100].
InPercentRange(r) == r.den > 0 /\ 0 <= r.num /\ r.num <= 100 * r.den

IsZero(r) == r.num = 0

\* C18: calculate() yields accuracy = (TP+TN)/(TP+TN+FP+FN)*100, precision =
\* TP/(TP+FP)*100 and recall = TP/(TP+FN)*100, each in [0, 100] when its
\* denominator is nonzero and exactly 0 when its denominator is 0.
C18_AccuracyPrecisionRecall ==
    LET m == calculate(collector)
        TP == collector.true_positive
        TN == collector.true_negative
        FP == collector.false_positive
        FN == collector.false_negative
    IN /\ IF TP + TN + FP + FN # 0
          THEN /\ IsPercentageOf(m.accuracy, TP + TN, TP + TN + FP + FN)
               /\ InPercentRange(m.accuracy)
          ELSE IsZero(m.accuracy)
       /\ IF TP + FP # 0
          THEN /\ IsPercentageOf(m.precision, TP, TP + FP)
               /\ InPercentRange(m.precision)
          ELSE IsZero(m.precision)
       /\ IF TP + FN # 0
          THEN /\ IsPercentageOf(m.recall, TP, TP + FN)
               /\ InPercentRange(m.recall)
          ELSE IsZero(m.recall)

\* Every cell is nonzero and the three ratios differ.
C18_Witness ==
    LET m == calculate(collector)
    IN /\ BatchFed
       /\ collector.true_positive = 3
       /\ collector.true_negative = 4
       /\ collector.false_positive = 1
       /\ collector.false_negative = 2
       /\ m.accuracy = [num |-> 70, den |-> 1]
       /\ m.precision = [num |-> 75, den |-> 1]
       /\ m.recall = [num |-> 60, den |-> 1]

\* C19: f1_score = 2*P*R/(P+R) with P and R the percentage-scale precision
\* and recall, and 0 when P + R = 0; a collector fed 5 successful (expected
\* risk, actual REJECT) outcomes and 5 successful (expected no-risk, actual
\* PASS) outcomes gives accuracy = precision = recall = f1 = 100.
C19_F1AndPerfectRun ==
    LET m == calculate(collector)
        P == m.precision
        R == m.recall
        hundred == [num |-> 100, den |-> 1]
    IN /\ IF P.num * R.den + R.num * P.den # 0
          THEN \* f1 * (P + R) = 2 * P * R, denominators cleared
               m.f1_score.num * (P.num * R.den + R.num * P.den)
                   = 2 * P.num * R.num * m.f1_score.den
          ELSE IsZero(m.f1_score)
       /\ (/\ BatchFed
           /\ plan.risk_reject = 5
           /\ plan.safe_pass = 5
           /\ PlanTotal(plan) = 10)
          => /\ m.accuracy = hundred
             /\ m.precision = hundred
             /\ m.recall = hundred
             /\ m.f1_score = hundred

\* The bucket the rule of C20 gives each error text: the first of "timeout",
\* "network" or "connection", "http", "api" that the text holds in any case of
\* its letters, Other if it holds none, Unknown if there is no text.
ClaimedBucket(error) ==
    CASE error = None -> "Unknown"
      [] error = <<>> -> "Unknown"
      [] error = Err_Timeout -> "Timeout"
      [] error = Err_GatewayTimeout -> "Timeout"
      [] error = Err_Network -> "Network Error"
      [] error = Exc_Connection -> "Network Error"
      [] error = Exc_Pool -> "Network Error"
      [] error = Err_HTTP -> "HTTP Error"
      [] error = Err_BadGateway -> "HTTP Error"
      [] error = Err_API -> "API Error"
      [] error = Err_Unexpected -> "Other"
      [] error = Exc_Boom -> "Other"

\* The error texts that hold "timeout" in any case of its letters.
TimeoutTexts == {Err_Timeout, Err_GatewayTimeout}

\* C20: record() of a failed outcome adds one to fail_count, adds one to
\* timeout_count iff the error text holds "timeout" case-insensitively, adds one
\* to exactly the bucket of the first-match rule (Unknown without a text), and
\* leaves success_count and the latency list alone.
C20_FailedOutcomeStep ==
    LET n == Len(collector.results)
        rec == collector'.results[n + 1]
    IN (Len(collector'.results) = n + 1 /\ ~rec.success) =>
        /\ collector'.fail_count = collector.fail_count + 1
        /\ collector'.timeout_count =
              collector.timeout_count + (IF rec.error \in TimeoutTexts THEN 1 ELSE 0)
        /\ collector'.error_types =
              [collector.error_types EXCEPT ![ClaimedBucket(rec.error)] = @ + 1]
        /\ collector'.success_count = collector.success_count
        /\ collector'.response_times = collector.response_times

C20_FailedOutcomeCounts == [][C20_FailedOutcomeStep]_vars

\* A success, then failures whose texts hold several of the keywords.
C20_Witness ==
    /\ Len(collector.results) = 3
    /\ collector.results[1].success
    /\ collector.results[2].error = Err_GatewayTimeout
    /\ collector.results[3].error = Exc_Pool
    /\ collector.fail_count = 2
    /\ collector.timeout_count = 1
    /\ collector.error_types["Timeout"] = 1
    /\ collector.error_types["Network Error"] = 1
    /\ collector.success_count = 1
    /\ collector.response_times = <<2>>

\* C15: whatever the attempts of an adapter call meet, a call none of whose
\* attempts got a verdict returns an outcome with success = false and an
\* error text; the call always returns (it has no step that raises).
C15_NoVerdictIsFailedOutcome ==
    (call_pc = "returned" /\ \A k \in 1..Len(attempt_log) : attempt_log[k] # "verdict")
        => /\ ~call_result.success
           /\ call_result.error # None
           /\ call_result.error # <<>>

\* The list run() was given for a kind, and what its result holds for it.
GivenCases(kind) ==
    IF kind = "text" THEN received[1].text_cases ELSE received[1].image_cases
MetricsOfKind(kind) ==
    IF kind = "text" THEN bench_result.text_metrics ELSE bench_result.image_metrics
MismatchesOfKind(kind) ==
    IF kind = "text" THEN bench_result.text_mismatches ELSE bench_result.image_mismatches

\* C13 as claimed: a run given an empty case list for a content kind returns
\* a result that carries, for that kind, a metrics object with total_requests
\* = 0 and all counters 0, and an empty mismatch list.
C13_EmptyListGivesZeroMetrics ==
    run_pc = "returned" =>
        \A kind \in ContentKinds :
            GivenCases(kind) = SomeList(<<>>) =>
                /\ MetricsOfKind(kind) # <<>>
                /\ MetricsOfKind(kind)[1].total_requests = 0
                /\ MetricsOfKind(kind)[1].success_count = 0
                /\ MetricsOfKind(kind)[1].fail_count = 0
                /\ MetricsOfKind(kind)[1].timeout_count = 0
                /\ MismatchesOfKind(kind) = <<>>

\* C13, amended: a run given an empty case list for a content kind, with no
\* data file whose rows of that kind replace it, returns a result that
\* carries no metrics object for that kind (None) and an empty mismatch list;
\* no adapter call is made for that kind.
C13_EmptyListGivesNoMetrics ==
    /\ run_pc = "returned" =>
          \A kind \in ContentKinds :
              (GivenCases(kind) = SomeList(<<>>) /\ IsFalsy(CasesOf(kind))) =>
                  /\ MetricsOfKind(kind) = <<>>
                  /\ MismatchesOfKind(kind) = <<>>
    /\ \A kind \in ContentKinds :
          run_pc = RunningKind(kind) => ~IsFalsy(CasesOf(kind))

\* A run given an empty text list and a non-empty image list has returned:
\* no text metrics, and image metrics for the one image case.
C13_Witness ==
    /\ run_pc = "returned"
    /\ received[1].text_cases = SomeList(<<>>)
    /\ run_args.test_text
    /\ run_args.data_file = <<>>
    /\ bench_result.text_metrics = <<>>
    /\ bench_result.text_mismatches = <<>>
    /\ bench_result.image_metrics # <<>>
    /\ bench_result.image_metrics[1].total_requests = 1
    /\ Len(bench_result.image_mismatches) = 1

\* The names of the providers before position k of self.providers.
NamesBefore(k) == {providers[j] : j \in 1..(k - 1)}

\* A sub-run is in progress: _run_benchmark has been entered and its pair has
\* not been stored yet.
SubRunActive == pc # "idle"

\* Provider i's sub-runs are over before provider i+1 is called: while a
\* sub-run is active it is that of the provider the loop is at, run() has been
\* called for exactly the providers up to it, and the results of all earlier
\* ones are stored; every run() call got the lists run_comparison loaded.
C14_OneProviderAtATime ==
    /\ SubRunActive =>
          /\ cmp_pc = "loop"
          /\ provider_index \in 1..Len(providers)
          /\ Len(received) = provider_index
          /\ bench_result.provider = providers[provider_index]
          /\ DOMAIN comparison_results = NamesBefore(provider_index)
    /\ \A k \in 1..Len(received) :
          received[k] = [text_cases |-> corpus.text_cases,
                         image_cases |-> corpus.image_cases]

\* When a provider's result is stored, no adapter call is pending or running
\* and every case of every tested kind has been recorded in it.
C14_StoredWhenComplete ==
    provider_index' = provider_index + 1 =>
        /\ pc = "idle"
        /\ futures = <<>>
        /\ \A kind \in ContentKinds :
              Wanted(kind) =>
                  /\ MetricsOfKind(kind) # <<>>
                  /\ MetricsOfKind(kind)[1].total_requests = Len(CasesOf(kind)[1])
        /\ providers[provider_index] \in DOMAIN comparison_results'
        /\ comparison_results'[providers[provider_index]] = bench_result

\* C14 as claimed: in run_comparison provider i's whole sub-run completes
\* before any adapter call of provider i+1 starts, every provider receives the
\* same case list, and the returned map holds exactly one BenchmarkResult per
\* added provider, keyed by provider name.
C14_OneResultPerAddedProvider ==
    /\ [](C14_OneProviderAtATime)
    /\ [][C14_StoredWhenComplete]_vars
    /\ [](cmp_pc = "returned" =>
            /\ Len(received) = Len(providers)
            /\ \A k \in 1..Len(providers) :
                  /\ providers[k] \in DOMAIN comparison_results
                  /\ comparison_results[providers[k]].provider = providers[k]
            /\ Cardinality(DOMAIN comparison_results) = Len(providers))

\* C14, amended: the same, but the returned map holds exactly one
\* BenchmarkResult per distinct name among the added providers, keyed by
\* that name (two providers of one name share the key).
C14_OneResultPerProviderName ==
    /\ [](C14_OneProviderAtATime)
    /\ [][C14_StoredWhenComplete]_vars
    /\ [](cmp_pc = "returned" =>
            /\ Len(received) = Len(providers)
            /\ DOMAIN comparison_results = {providers[k] : k \in 1..Len(providers)}
            /\ \A name \in DOMAIN comparison_results :
                  comparison_results[name].provider = name)

\* A comparison of two providers over a text list and an image list has
\* returned, with each provider's own figures under its name.
C14_Witness ==
    /\ cmp_pc = "returned"
    /\ providers = <<"shumei", "yidun">>
    /\ Len(received) = 2
    /\ ~IsFalsy(corpus.text_cases)
    /\ ~IsFalsy(corpus.image_cases)
    /\ comparison_results["shumei"].text_metrics[1].success_count = 1
    /\ comparison_results["shumei"].image_metrics[1].success_count = 1
    /\ comparison_results["yidun"].text_metrics[1].fail_count = 1
    /\ comparison_results["yidun"].image_metrics[1].fail_count = 1

\* Two calls of calculate() with no record() between them returned the same.
C21_SameMetrics ==
    \A j, k \in 1..Len(calculated) :
        calculated[j].records = calculated[k].records
            => calculated[j].metrics = calculated[k].metrics

\* A call of calculate() leaves every field of the collector as it was.
C21_CalculateStep ==
    Len(calculated') = Len(calculated) + 1 => collector' = collector

RowIsOfRecord(row, m) ==
    /\ Len(row) = Len(headers)
    /\ row[1] = m.case_id
    /\ row[2] = m.content
    /\ row[3] = m.content_type
    /\ row[4] = m.expected_risk
    /\ row[5] = m.actual_risk_level
    /\ row[6] = m.actual_risk_label
    /\ row[7] = m.risk_description
    /\ row[8] = format_0f(m.response_time_ms)
    /\ row[9] = m.raw_response

\* C22: the mismatch export writes one fixed header row followed by exactly
\* one data row per MismatchRecord of the in-memory list, in the order of the
\* list; no record is dropped, duplicated or reordered.
C22_ExportKeepsRecordsAndOrder ==
    /\ csv_file # <<>> => csv_file[1] = headers
    /\ Len(csv_file) <= 1 + Len(export_list)
    /\ \A k \in 1..(Len(csv_file) - 1) : RowIsOfRecord(csv_file[k + 1], export_list[k])
    /\ export_pc = "closed" => Len(csv_file) = 1 + Len(export_list)

\* A list that holds one record twice around another one has been written.
C22_Witness ==
    /\ export_pc = "closed"
    /\ Len(export_list) = 3
    /\ export_list[1] = export_list[3]
    /\ export_list[1].case_id = 2
    /\ export_list[2].case_id = 3
    /\ Len(csv_file) = 4
    /\ csv_file[2][8] = <<"1", "2", "0">>
    /\ csv_file[3][1] = 3
    /\ csv_file[4][1] = 2

\* The attempts in which the adapter of vendor v catches an exception: the
\* request or the reading of the answer raised.  Huoshan's client raises for
\* everything but an answer it could build.
RaisesIn(v, kind) ==
    IF v = "huoshan" THEN kind # "verdict"
    ELSE kind \in {"timeout", "network", "other", "unparsable", "malformed"}

\* The attempts in which the vendor answered and the answer was read to the
\* end: an HTTP 200 answer with a verdict or with the vendor's error code.
ReadAnswerIn(v, kind) ==
    IF v = "huoshan" THEN kind = "verdict"
    ELSE kind \in {"verdict", "vendor_error"}

\* A call makes at most RETRY_TIMES attempts and at least one before it
\* returns, and has slept once between consecutive attempts and not after the
\* last one.
C23_AttemptsAndSleeps ==
    /\ attempt <= RETRY_TIMES
    /\ call_pc \in {"return", "returned"} => attempt >= 1 /\ sleeps = attempt - 1
    /\ call_pc = "backoff" => attempt < RETRY_TIMES /\ sleeps = attempt - 1
    /\ call_pc = "attempt" => attempt < RETRY_TIMES /\ sleeps = attempt

\* The sleep is followed by the next attempt, and a call that is returning
\* makes no attempt.
C23_SleepThenAttempt ==
    /\ (call_pc = "backoff" /\ call_pc' # call_pc)
          => call_pc' = "attempt" /\ sleeps' = sleeps + 1 /\ attempt' = attempt
    /\ call_pc \in {"return", "returned"} => attempt' = attempt /\ sleeps' = sleeps

\* As claimed: an attempt that raised is followed by a further one while
\* attempts remain, and an attempt in which the vendor answered without an
\* exception is the last.
C23_StepAsClaimed ==
    attempt' = attempt + 1 =>
        LET kind == attempt_log'[attempt']
        IN /\ (RaisesIn(vendor, kind) /\ attempt' < RETRY_TIMES) => call_pc' = "backoff"
           /\ ~RaisesIn(vendor, kind) => call_pc' = "return"

\* C23 as claimed: one adapter call makes at least one and at most RETRY_TIMES
\* attempts; it makes a further attempt after any attempt that raised an
\* exception while attempts remain, waits the 1 s backoff between consecutive
\* attempts and not after the last one, and makes no further attempt once an
\* attempt has produced a vendor response.
C23_RetryOnExceptionOnly ==
    /\ [](C23_AttemptsAndSleeps)
    /\ [][C23_SleepThenAttempt]_vars
    /\ [][C23_StepAsClaimed]_vars

\* Amended: every attempt but one whose HTTP 200 answer was read to the end
\* is followed by a further one while attempts remain (an answer with another
\* HTTP status is retried like an exception), and an attempt whose answer was
\* read to the end, or the RETRY_TIMES-th attempt, is the last.
C23_StepAmended ==
    attempt' = attempt + 1 =>
        LET kind == attempt_log'[attempt']
        IN /\ (~ReadAnswerIn(vendor, kind) /\ attempt' < RETRY_TIMES)
                 => call_pc' = "backoff"
           /\ (ReadAnswerIn(vendor, kind) \/ attempt' = RETRY_TIMES)
                 => call_pc' = "return"

\* C23, amended: one adapter call makes at least one and at most RETRY_TIMES
\* attempts; it makes a further attempt, while attempts remain, after any
\* attempt that raised an exception or got an answer with an HTTP status
\* other than 200; it waits the 1 s backoff between consecutive attempts and
\* not after the last one; and it makes no further attempt once an HTTP 200
\* answer has been read without an exception.
C23_RetryUnlessAnswerRead ==
    /\ [](C23_AttemptsAndSleeps)
    /\ [][C23_SleepThenAttempt]_vars
    /\ [][C23_StepAmended]_vars

\* A call that timed out, then got an HTTP 500, then a verdict, has returned
\* after three attempts and two sleeps.
C23_Witness ==
    /\ call_pc = "returned"
    /\ vendor = "yidun"
    /\ attempt_log = <<"timeout", "http_error", "verdict">>
    /\ attempt = RETRY_TIMES
    /\ sleeps = 2

\* The submitted cases are the first ones of the list, the pool runs at most
\* max_workers of them, and neither the submission nor the pause after it
\* waits for a task: whenever the main thread is at one of them it can take
\* it, whatever the futures are doing.
C24_SubmissionState ==
    /\ \A i \in 1..N : futures[i].state # "none" <=> i <= submitted
    /\ pc = "sleep" => submitted >= 1 /\ ENABLED Sleep
    /\ (pc = "submit" /\ submitted < N) => ENABLED Submit
    /\ pc \in {"collect", "done"} => submitted = N
    /\ Cardinality(Running) <= max_workers

\* A submission hands the pool the next case of the list and nothing else,
\* and goes to the pause; the pause changes no future and leads to the next
\* submission or, after the last case, to the collection.
C24_SubmissionStep ==
    /\ submitted' # submitted =>
          /\ pc = "submit"
          /\ pc' = "sleep"
          /\ submitted' = submitted + 1
          /\ futures' = [futures EXCEPT ![submitted + 1].state = "pending"]
    /\ (pc = "sleep" /\ pc' # pc) =>
          /\ pc' = (IF submitted < N THEN "submit" ELSE "collect")
          /\ submitted' = submitted
          /\ futures' = futures
    /\ (pc = "submit" /\ pc' # pc) => submitted' = submitted + 1

\* C24: cases are submitted to the pool one at a time, in case-list order, by
\* the submitting thread, which sleeps request_interval after each submission
\* before making the next; the pause depends only on submissions and never on
\* task completions, and the pool-size cap applies throughout.
C24_ThrottledSubmission ==
    [](C24_SubmissionState) /\ [][C24_SubmissionStep]_vars

\* The second case can be submitted while the first one occupies the only
\* worker.
C24_Witness ==
    /\ N = 2
    /\ max_workers = 1
    /\ pc = "submit"
    /\ submitted = 1
    /\ futures[1].state = "running"
    /\ futures[2].state = "none"

\* The rule of C25 for a successful outcome: the labels are equal, or both
\* are the no-risk label, or both differ from it and one holds the other.
ClaimedMatch(expected, actual) ==
    \/ expected = actual
    \/ expected = NoRiskLabel /\ actual = NoRiskLabel
    \/ /\ expected # NoRiskLabel
       /\ actual # NoRiskLabel
       /\ (Contains(expected, actual) \/ Contains(actual, expected))

\* The recorded outcomes of category g that are successful and match.
ClaimedMatches(g) ==
    {k \in 1..Len(collector.results) :
        /\ inputs[k].category = g
        /\ inputs[k].result.success
        /\ ClaimedMatch(inputs[k].expected_risk, inputs[k].result.risk_label)}

\* _is_match follows the rule on every pair, a category's match_count is the
\* number of its successful outcomes that match, and calculate() reports the
\* confusion matrix that record() built.
C25_MatchCount ==
    LET m == calculate(collector)
    IN /\ \A k \in 1..Len(inputs) :
             _is_match(inputs[k].expected_risk, inputs[k].result.risk_label)
                <=> ClaimedMatch(inputs[k].expected_risk, inputs[k].result.risk_label)
       /\ _is_match(SheZheng, SheZhengMinGan) /\ _is_match(SheZhengMinGan, SheZheng)
       /\ ~_is_match(SheZheng, SeQing)
       /\ ~_is_match(FeiZhengChang, NoRiskLabel) /\ ~_is_match(NoRiskLabel, FeiZhengChang)
       /\ \A g \in DOMAIN m.category_metrics :
             m.category_metrics[g].match_count = Cardinality(ClaimedMatches(g))
       /\ \A g \in Categories \ {<<>>} :
             g \notin DOMAIN m.category_metrics => ClaimedMatches(g) = {}
       /\ m.true_positive = collector.true_positive
       /\ m.true_negative = collector.true_negative
       /\ m.false_positive = collector.false_positive
       /\ m.false_negative = collector.false_negative

\* record() of a successful outcome picks the confusion-matrix cell from
\* (expected is a risk label, actual is a risk label) alone, whether or not
\* the two labels match.
C25_MatrixStep ==
    LET n == Len(collector.results)
        x == inputs[n + 1]
        e == x.expected_risk # NoRiskLabel
        a == x.result.risk_label # NoRiskLabel
        inc(b) == IF b THEN 1 ELSE 0
    IN (Len(collector'.results) = n + 1 /\ x.result.success) =>
        /\ collector'.true_positive = collector.true_positive + inc(e /\ a)
        /\ collector'.true_negative = collector.true_negative + inc(~e /\ ~a)
        /\ collector'.false_positive = collector.false_positive + inc(~e /\ a)
        /\ collector'.false_negative = collector.false_negative + inc(e /\ ~a)

\* C25: for per-category statistics a successful outcome matches its expected
\* label iff the two strings are equal, or both are the no-risk label, or
\* both differ from the no-risk label and one is a substring of the other; a
\* category's match_count is exactly the number of successful outcomes in
\* that category that match; and this relaxed match never changes the
\* confusion matrix.
C25_RelaxedMatch ==
    [](C25_MatchCount) /\ [][C25_MatrixStep]_vars

\* A category holds a relaxed match and a pair of different risk labels that
\* do not match; both are true positives.
C25_Witness ==
    /\ Len(inputs) = 2
    /\ Len(collector.results) = 2
    /\ inputs[1] = MatchInput(SheZheng, SheZhengMinGan, <<"p">>)
    /\ inputs[2] = MatchInput(SheZheng, SeQing, <<"p">>)
    /\ calculate(collector).category_metrics[<<"p">>].match_count = 1
    /\ calculate(collector).category_metrics[<<"p">>].success = 2
    /\ collector.true_positive = 2

\* C26: the number of MismatchRecords a run returns equals false_positive +
\* false_negative of the metrics the same run returns, for every combination
\* of success flag, risk level and risk label the adapter can return.
C26_MismatchesAreFalseCells ==
    Done => Len(returned[1].mismatches)
               = Metrics.false_positive + Metrics.false_negative

\* C27: an outcome returned by a vendor adapter with success = true has no
\* error text, whatever the attempts of the retry loop met (a failed attempt
\* followed by a successful one, an answer accepted and then failing to
\* parse).
C27_SuccessHasNoErrorText ==
    (call_pc = "returned" /\ call_result.success)
        => (call_result.error = None \/ call_result.error = <<>>)

\* Something has been collected: an outcome recorded, a mismatch noted, a
\* future yielded by as_completed, or a callback called.
Collected ==
    \/ collector.results # <<>>
    \/ mismatches # <<>>
    \/ yielded # {}
    \/ completed # 0
    \/ result_calls # <<>>
    \/ progress_calls # <<>>

\* A step that records, notes a mismatch or calls a callback is a step of
\* the collection loop, after the submission loop.
C28_CollectionStep ==
    (\/ collector'.results # collector.results
     \/ mismatches' # mismatches
     \/ result_calls' # result_calls
     \/ progress_calls' # progress_calls)
        => (pc = "collect" /\ submitted = N)

\* C28: in a driver run no outcome is recorded by the collector and no
\* on_result or progress callback fires before the last case of the batch has
\* been submitted: result collection starts only after the whole submission
\* loop, including its sleeps, has finished.
C28_CollectAfterLastSubmission ==
    /\ [](Collected => (submitted = N /\ pc \in {"collect", "done"}))
    /\ [][C28_CollectionStep]_vars

\* The first task has finished while the submission loop is still sleeping
\* before the second submission, and nothing has been collected.
C28_Witness ==
    /\ N = 2
    /\ pc = "sleep"
    /\ submitted = 1
    /\ futures[1].state = "finished"
    /\ ~Collected

\* A step that records a failed outcome leaves the latency samples alone.
C29_FailureStep ==
    (/\ Len(collector'.results) = Len(collector.results) + 1
     /\ collector'.success_count = collector.success_count)
        => collector'.response_times = collector.response_times

\* C29: after any sequence of record() calls the number of stored latency
\* samples equals success_count (a failed outcome never adds a latency
\* sample), and the response_times list of the finalized metrics has exactly
\* success_count elements.
C29_OneSamplePerSuccess ==
    /\ [](/\ Len(collector.response_times) = collector.success_count
          /\ Len(calculate(collector).response_times) = collector.success_count
          /\ calculate(collector).success_count = collector.success_count)
    /\ [][C29_FailureStep]_vars

\* Two successes and a failure have been recorded: two samples for three
\* records.
C29_Witness ==
    /\ Len(collector.results) = 3
    /\ collector.success_count = 2
    /\ collector.fail_count = 1
    /\ Len(collector.response_times) = 2
    /\ Len(calculate(collector).response_times) = 2

\* The rounds executed so far, counted as the claim counts them (entries
\* appended to round_results) and as the loop counts them (round_num), stay
\* within total_rounds.
C30_RoundsWithinTotal ==
    /\ Len(round_results) <= total_rounds
    /\ round_num <= total_rounds

\* A round that raises adds one error entry and the loop goes on to the test
\* for the next round.
C30_RaisingRoundStep ==
    (/\ sched_pc = "round"
     /\ Len(round_results') > Len(round_results)
     /\ round_results'[Len(round_results')].error # <<>>)
        => (/\ round_results' = Append(round_results,
                                       round_error(round_num, round_start))
            /\ sched_pc' = "next")

\* After a round the loop is left exactly when the next round's start time
\* would reach the end time.
C30_LoopEndStep ==
    (sched_pc = "next")
        => ((sched_pc' = "report") <=> (round_start + timedelta(interval_hours) >= end_time))

\* C30: in ScheduledBenchmark.run, for all positive integer duration_hours
\* and interval_hours and any running time of a round, the number of rounds
\* executed (entries appended to round_results) never exceeds total_rounds =
\* duration_hours // interval_hours; a round that raises is recorded as one
\* error entry and does not stop later rounds; and the loop ends once the
\* next round's start time would reach the end time.
C30_ScheduledRounds ==
    /\ [](C30_RoundsWithinTotal)
    /\ [][C30_RaisingRoundStep]_vars
    /\ [][C30_LoopEndStep]_vars

====
